---- MODULE Spec2Model ----
(***************************************************************************)
(* Model of the PDF composition engine of the drawing generator            *)
(* (src/src/pdfService.ts): font resolution, text wrapping, field          *)
(* rendering and composition of drawings onto a base template.             *)
(*                                                                         *)
(* Strings that are measured, wrapped or compared (data values, condition  *)
(* values) are sequences of characters.  Names (fields, files, fonts) are  *)
(* TLA+ strings.                                                           *)
(***************************************************************************)
EXTENDS Integers, Sequences, FiniteSets, TLC

\* ------------------------------------------------------------------ bounds
\* longest side, besides those of the documented example, of a natural size or
\* of a placement rectangle in the contained-fit specification
MaxSide == 4
\* longest text handed to wrapText in the wrapText specification
MaxTextLen == 5
\* largest maxWidth handed to wrapText in the wrapText specification
MaxWrapWidth == 4

\* number of concurrent render requests
MaxRequests == 2
\* latest reading of the system clock in the specification of repeated calls
MaxClock == 2

\* ------------------------------------------------------------ text helpers
Chars == {"a", "b", " "}

RECURSIVE TextsUpTo(_)
TextsUpTo(n) ==
  IF n = 0 THEN {<<>>}
  ELSE LET shorter == TextsUpTo(n - 1)
       IN  shorter \cup {Append(t, c) : t \in shorter, c \in Chars}

\* the 12 standard font programs the service embeds
StandardFonts ==
  {"Helvetica", "Helvetica-Bold", "Helvetica-Oblique", "Helvetica-BoldOblique",
   "Times-Roman", "Times-Bold", "Times-Italic", "Times-BoldItalic",
   "Courier", "Courier-Bold", "Courier-Oblique", "Courier-BoldOblique"}

CourierFonts == {"Courier", "Courier-Bold", "Courier-Oblique", "Courier-BoldOblique"}

\* advance width of one glyph, in em units: Courier is monospaced, the other
\* families are proportional
GlyphUnits(font, c) ==
  IF font \in CourierFonts THEN 2
  ELSE IF c = "b" THEN 2 ELSE 1

RECURSIVE SumUnits(_, _)
SumUnits(font, text) ==
  IF text = <<>> THEN 0
  ELSE GlyphUnits(font, Head(text)) + SumUnits(font, Tail(text))

\* font.widthOfTextAtSize(text, size): the sum of the glyph advances, scaled
widthOfTextAtSize(font, text, size) == size * SumUnits(font, text)

\* index of the first space of a text, 0 when it has none
FirstSpace(text) ==
  IF \E i \in 1..Len(text) : text[i] = " "
  THEN CHOOSE i \in 1..Len(text) :
         text[i] = " " /\ \A j \in 1..(i - 1) : text[j] # " "
  ELSE 0

\* text.split(' '): never empty, the empty text gives one empty word
RECURSIVE split(_)
split(text) ==
  LET i == FirstSpace(text)
  IN  IF i = 0 THEN <<text>>
      ELSE <<SubSeq(text, 1, i - 1)>> \o split(SubSeq(text, i + 1, Len(text)))

\* a JavaScript string is truthy exactly when it is not empty
Truthy(s) == s # <<>>

\* ---------------------------------------------------------------- wrapText
\* faulty variant: the word alone is measured, not the line with the word
\* appended
wrapLoop_measuresWord(words, lines, currentLine, font, fontSize, maxWidth) ==
  LET RECURSIVE loop(_, _, _)
      loop(rest, pushed, current) ==
        IF rest = <<>>
        THEN IF Truthy(current) THEN Append(pushed, current) ELSE pushed
        ELSE LET word     == Head(rest)
                 testLine == IF Truthy(current)
                             THEN current \o <<" ">> \o word
                             ELSE word
                 width    == widthOfTextAtSize(font, word, fontSize)
             IN  IF width > maxWidth /\ Truthy(current)
                 THEN loop(Tail(rest), Append(pushed, current), word)
                 ELSE loop(Tail(rest), pushed, testLine)
  IN  loop(words, lines, currentLine)

\* the for loop of wrapText over the words still to place, and the final push
RECURSIVE wrapLoop(_, _, _, _, _, _)
wrapLoop(words, lines, currentLine, font, fontSize, maxWidth) ==
  IF words = <<>>
  THEN IF Truthy(currentLine) THEN Append(lines, currentLine) ELSE lines
  ELSE LET word     == Head(words)
           testLine == IF Truthy(currentLine)
                       THEN currentLine \o <<" ">> \o word
                       ELSE word
           width    == widthOfTextAtSize(font, testLine, fontSize)
       IN  IF width > maxWidth /\ Truthy(currentLine)
           THEN wrapLoop(Tail(words), Append(lines, currentLine), word,
                         font, fontSize, maxWidth)
           ELSE wrapLoop(Tail(words), lines, testLine,
                         font, fontSize, maxWidth)

\* faulty variant: a line break loses the word that caused it
wrapText_dropsWord(text, font, fontSize, maxWidth) ==
  LET RECURSIVE loop(_, _, _)
      loop(words, lines, currentLine) ==
        IF words = <<>>
        THEN IF Truthy(currentLine) THEN Append(lines, currentLine) ELSE lines
        ELSE LET word     == Head(words)
                 testLine == IF Truthy(currentLine)
                             THEN currentLine \o <<" ">> \o word
                             ELSE word
                 width    == widthOfTextAtSize(font, testLine, fontSize)
             IN  IF width > maxWidth /\ Truthy(currentLine)
                 THEN loop(Tail(words), Append(lines, currentLine), <<>>)
                 ELSE loop(Tail(words), lines, testLine)
  IN  loop(split(text), <<>>, <<>>)

wrapText(text, font, fontSize, maxWidth) ==
  wrapLoop(split(text), <<>>, <<>>, font, fontSize, maxWidth)

\* --------------------------------------------------------- font resolution
\* A fontFamily hint is a sequence of tokens whose concatenation is the
\* string: "Times-BoldItalic" is <<"Times", "-Bold", "Italic">>.  The tokens
\* are chosen so that no substring or pattern the code looks for straddles
\* two tokens.  The empty sequence is an absent (or empty) fontFamily.
FontHints ==
  {<<>>,
   <<"Helvetica">>, <<"Helvetica", "-Bold">>, <<"Helvetica", "-Oblique">>,
   <<"Helvetica", "-Bold", "Oblique">>,
   <<"Times", "-Roman">>, <<"Times", "-Bold">>, <<"Times", "-Italic">>,
   <<"Times", "-Bold", "Italic">>,
   <<"Courier">>, <<"Courier", "-Bold">>, <<"Courier", "-Oblique">>,
   <<"Courier", "-Bold", "Oblique">>,
   <<"Arial">>, <<"Arial", "-Bold">>, <<"Verdana", "-Italic">>, <<"Times">>}

\* String.prototype.includes on a hint: some token holds the substring
includes(hint, sub) ==
  \E i \in 1..Len(hint) :
    \/ hint[i] = sub
    \/ sub = "Bold"    /\ hint[i] = "-Bold"
    \/ sub = "Italic"  /\ hint[i] = "-Italic"
    \/ sub = "Oblique" /\ hint[i] = "-Oblique"

\* fontFamily.replace(/-Bold|-Oblique|-BoldOblique|-Italic|-BoldItalic/gi, ''):
\* the alternatives are tried in order at each position, so "-Bold" always
\* wins over "-BoldOblique" and "-BoldItalic" and the "Oblique" or "Italic"
\* that follows it stays in the string
IsSuffixMatch(tok) == tok \in {"-Bold", "-Oblique", "-Italic"}

stripVariantSuffix(hint) == SelectSeq(hint, LAMBDA tok : ~IsSuffixMatch(tok))

\* the if/else chain that picks the StandardFonts member
selectFont(baseFamily, isBold, isItalic) ==
  IF baseFamily = <<"Helvetica">> THEN
    IF isBold /\ isItalic THEN "Helvetica-BoldOblique"
    ELSE IF isBold THEN "Helvetica-Bold"
    ELSE IF isItalic THEN "Helvetica-Oblique"
    ELSE "Helvetica"
  ELSE IF baseFamily = <<"Times", "-Roman">> THEN
    IF isBold /\ isItalic THEN "Times-BoldItalic"
    ELSE IF isBold THEN "Times-Bold"
    ELSE IF isItalic THEN "Times-Italic"
    ELSE "Times-Roman"
  ELSE IF baseFamily = <<"Courier">> THEN
    IF isBold /\ isItalic THEN "Courier-BoldOblique"
    ELSE IF isBold THEN "Courier-Bold"
    ELSE IF isItalic THEN "Courier-Oblique"
    ELSE "Courier"
  ELSE "Helvetica"

\* font resolution of generatePDF
resolveFontGeneratePDF(fontFamily, bold, italic) ==
  LET rawFamily == IF fontFamily = <<>> THEN <<"Helvetica">> ELSE fontFamily
  IN  IF includes(rawFamily, "Times")
      THEN selectFont(<<"Times", "-Roman">>,
                      bold \/ includes(rawFamily, "Bold"),
                      italic \/ includes(rawFamily, "Italic"))
      ELSE IF includes(rawFamily, "Courier")
      THEN selectFont(<<"Courier">>,
                      bold \/ includes(rawFamily, "Bold"),
                      italic \/ includes(rawFamily, "Oblique"))
      ELSE selectFont(<<"Helvetica">>,
                      bold \/ includes(rawFamily, "Bold"),
                      italic \/ includes(rawFamily, "Oblique"))

\* font resolution of generateWithCombination, the same code for the fields
\* of the template and for the fields of a drawing
resolveFontCombination(fontFamily, bold, italic) ==
  LET family     == IF fontFamily = <<>> THEN <<"Helvetica">> ELSE fontFamily
      baseFamily == stripVariantSuffix(family)
  IN  selectFont(baseFamily, bold, italic)

\* ------------------------------------------------------------ data model
\* data[fieldName] of a key the request does not carry; a value is a text, so
\* the marker is a sequence too, of a symbol that is no character
Undefined == <<"undefined">>

\* drawingsData[drawingName] of a drawing the request carries no bucket for
NoBucket == [undefined |-> TRUE]

\* a stored file that does not exist (fs.pathExists is false)
Null == [null |-> TRUE]

\* a stored mapping table: its entries in the order of Object.entries
Table(fields) == [fields |-> fields]

FieldNames == {"name", "status"}

\* hexToRgb: the three colour components, each still multiplied by 255; a
\* string that is not six hex digits gives black
hexToRgb(hex) ==
  IF hex = "#ff0000" THEN <<255, 0, 0>>
  ELSE IF hex = "#0000ff" THEN <<0, 0, 255>>
  ELSE <<0, 0, 0>>

\* an absent numeric or string property of a mapping is 0, "" or <<>>: the
\* code reads every property through `|| default`, which treats them alike
OrDefault(value, absent, default) == IF value = absent THEN default ELSE value

\* ------------------------------------------------------- field rendering
\* faulty variant: a line is dropped only when its own offset exceeds maxHeight
drawLines_offsetOnly(page, height, fieldName, fm, lines, i, font, fontSize, maxWidth, maxHeight, colorRgb) ==
  LET lineHeight == fontSize + 2
      baselineY  == fm.y + fontSize
      align      == OrDefault(fm.align, "", "left")
      RECURSIVE loop(_)
      loop(k) ==
        LET currentY   == baselineY + (k - 1) * lineHeight
            lineOffset == currentY - baselineY
            lineWidth  == widthOfTextAtSize(font, lines[k], fontSize)
            x2         == IF align = "center" THEN 2 * fm.x + (maxWidth - lineWidth)
                          ELSE IF align = "right" THEN 2 * (fm.x + maxWidth - lineWidth)
                          ELSE 2 * fm.x
        IN  IF k > Len(lines) THEN <<>>
            ELSE IF lineOffset > maxHeight THEN <<>>
            ELSE <<[op |-> "drawText", page |-> page, field |-> fieldName,
                    text |-> lines[k], x2 |-> x2, y |-> height - currentY,
                    size |-> fontSize, font |-> font, color |-> colorRgb]>>
                 \o loop(k + 1)
  IN  loop(i)

\* the lines of a wrapped field that are drawn: the loop leaves at the first
\* line whose offset plus one line height exceeds maxHeight
RECURSIVE drawLines(_, _, _, _, _, _, _, _, _, _, _)
drawLines(page, height, fieldName, fm, lines, i, font, fontSize, maxWidth, maxHeight, colorRgb) ==
  LET lineHeight == fontSize + 2
      baselineY  == fm.y + fontSize
      currentY   == baselineY + (i - 1) * lineHeight
      lineOffset == currentY - baselineY
      align      == OrDefault(fm.align, "", "left")
      lineWidth  == widthOfTextAtSize(font, lines[i], fontSize)
      x2         == IF align = "center" THEN 2 * fm.x + (maxWidth - lineWidth)
                    ELSE IF align = "right" THEN 2 * (fm.x + maxWidth - lineWidth)
                    ELSE 2 * fm.x
  IN  IF i > Len(lines) THEN <<>>
      ELSE IF lineOffset + lineHeight > maxHeight THEN <<>>
      ELSE <<[op |-> "drawText", page |-> page, field |-> fieldName,
              text |-> lines[i], x2 |-> x2, y |-> height - currentY,
              size |-> fontSize, font |-> font, color |-> colorRgb]>>
           \o drawLines(page, height, fieldName, fm, lines, i + 1, font,
                        fontSize, maxWidth, maxHeight, colorRgb)

\* faulty variant: the lines of a wrapped text are aligned by the width of the
\* whole text
drawField_alignsWholeText(page, height, fieldName, fm, textValue, font) ==
  LET fontSize  == OrDefault(fm.size, 0, 12)
      align     == OrDefault(fm.align, "", "left")
      maxWidth  == OrDefault(fm.maxWidth, 0, 200)
      maxHeight == OrDefault(fm.maxHeight, 0, 1000)
      colorRgb  == hexToRgb(OrDefault(fm.color, "", "#000000"))
      textWidth == widthOfTextAtSize(font, textValue, fontSize)
      baselineY == fm.y + fontSize
      x2        == IF align = "center" THEN 2 * fm.x + (maxWidth - textWidth)
                   ELSE IF align = "right" THEN 2 * (fm.x + maxWidth - textWidth)
                   ELSE 2 * fm.x
      drawn     == drawLines(page, height, fieldName, fm,
                             wrapText(textValue, font, fontSize, maxWidth), 1,
                             font, fontSize, maxWidth, maxHeight, colorRgb)
  IN  IF textWidth > maxWidth
      THEN [k \in 1..Len(drawn) |-> [drawn[k] EXCEPT !.x2 = x2]]
      ELSE <<[op |-> "drawText", page |-> page, field |-> fieldName,
              text |-> textValue, x2 |-> x2, y |-> height - baselineY,
              size |-> fontSize, font |-> font, color |-> colorRgb]>>

\* layout and drawing of one field with a value, the same code in generatePDF
\* and twice in generateWithCombination.  The draw call carries twice its x
\* (x2) so that centring stays in the integers; `field` is not an argument of
\* drawText, it records which mapping entry issued the call.
drawField(page, height, fieldName, fm, textValue, font) ==
  LET fontSize  == OrDefault(fm.size, 0, 12)
      align     == OrDefault(fm.align, "", "left")
      maxWidth  == OrDefault(fm.maxWidth, 0, 200)
      maxHeight == OrDefault(fm.maxHeight, 0, 1000)
      colorRgb  == hexToRgb(OrDefault(fm.color, "", "#000000"))
      textWidth == widthOfTextAtSize(font, textValue, fontSize)
      baselineY == fm.y + fontSize
      x2        == IF align = "center" THEN 2 * fm.x + (maxWidth - textWidth)
                   ELSE IF align = "right" THEN 2 * (fm.x + maxWidth - textWidth)
                   ELSE 2 * fm.x
  IN  IF textWidth > maxWidth
      THEN drawLines(page, height, fieldName, fm,
                     wrapText(textValue, font, fontSize, maxWidth), 1,
                     font, fontSize, maxWidth, maxHeight, colorRgb)
      ELSE <<[op |-> "drawText", page |-> page, field |-> fieldName,
              text |-> textValue, x2 |-> x2, y |-> height - baselineY,
              size |-> fontSize, font |-> font, color |-> colorRgb]>>

\* generatePDF: value === undefined || value === null
skipsValueGeneratePDF(value) == value = Undefined

\* faulty variant: an absent value is drawn as the empty string
skipsValueCombination_never(value) == FALSE

\* generateWithCombination: !textValue
skipsValueCombination(value) == value = Undefined \/ ~Truthy(value)

\* String(value); an undefined value that is not skipped has no characters to
\* measure or draw
TextOf(value) == IF value = Undefined THEN <<>> ELSE value

\* the loop of generatePDF over Object.entries(mapping)
RECURSIVE renderFieldsGeneratePDF(_, _, _, _)
renderFieldsGeneratePDF(page, height, mapping, data) ==
  IF mapping = <<>> THEN <<>>
  ELSE LET fieldName    == Head(mapping).fieldName
           fieldMapping == Head(mapping).fieldMapping
           value        == data[fieldName]
           font         == resolveFontGeneratePDF(fieldMapping.fontFamily,
                                                  fieldMapping.bold, fieldMapping.italic)
       IN  (IF skipsValueGeneratePDF(value) THEN <<>>
            ELSE drawField(page, height, fieldName, fieldMapping, TextOf(value), font))
           \o renderFieldsGeneratePDF(page, height, Tail(mapping), data)

\* the loops of generateWithCombination over Object.entries(templateMapping)
\* and over Object.entries(drawingMapping)
RECURSIVE renderFieldsCombination(_, _, _, _)
renderFieldsCombination(page, height, mapping, data) ==
  IF mapping = <<>> THEN <<>>
  ELSE LET fieldName    == Head(mapping).fieldName
           fieldMapping == Head(mapping).fieldMapping
           textValue    == data[fieldName]
           font         == resolveFontCombination(fieldMapping.fontFamily,
                                                  fieldMapping.bold, fieldMapping.italic)
       IN  (IF skipsValueCombination(textValue) THEN <<>>
            ELSE drawField(page, height, fieldName, fieldMapping, TextOf(textValue), font))
           \o renderFieldsCombination(page, height, Tail(mapping), data)

\* ------------------------------------------------------------------- state
VARIABLES
  templates,        \* templates/: file name -> Null or the PDF (its page height)
  mappings,         \* mappings/: json file name -> Null or mapping table
  drawings,         \* drawings/: file name -> Null or the drawing (its natural size)
  drawingMappings,  \* drawings_mappings/: json file name -> Null or mapping table
  combinations,     \* combinations/: json file name -> Null or combination
  fn,     \* the operation called: "idle" before a call, then its name
  args,   \* its arguments
  ret,    \* its return value, NoValue before the call
  requests,   \* concurrent requests: the position and local variables of each
  documents   \* concurrent requests: the in-memory documents being drawn on

storage == <<templates, mappings, drawings, drawingMappings, combinations>>

\* what the requests in flight hold in memory
inflight == <<requests, documents>>

vars == <<templates, mappings, drawings, drawingMappings, combinations, fn, args, ret,
          requests, documents>>

NoValue == [none |-> TRUE]

\* one call at a time: nothing else is in flight
NoneInFlight == requests = NoValue /\ documents = NoValue

\* a file name is its stem and its extension
FileName(stem, ext) == [stem |-> stem, ext |-> ext]

\* String.prototype.toLowerCase on an extension
toLowerCase(ext) ==
  CASE ext = ".PDF" -> ".pdf"
    [] ext = ".PNG" -> ".png"
    [] OTHER -> ext

\* path.extname(name).toLowerCase()
extname(name) == toLowerCase(name.ext)

\* name.replace(/\.(pdf|png|jpg|jpeg|gif|bmp|svg)$/i, '.json'), which ignores
\* the case of the extension, and name.replace('.pdf', '.json'), which is
\* only applied to template names in lower case here
jsonName(name) ==
  IF toLowerCase(name.ext) \in {".pdf", ".png", ".jpg", ".jpeg", ".gif", ".bmp", ".svg"}
  THEN FileName(name.stem, ".json")
  ELSE name

TemplateNames == {FileName("t", ".pdf")}
\* the drawings directory takes any file: PDF, raster image or SVG
DrawingNames == {FileName("d", ".pdf"), FileName("d", ".png"), FileName("d", ".svg")}
CombinationNames == {"c"}

\* the storage the pure-function specifications leave untouched
EmptyStorage ==
  /\ templates = [n \in TemplateNames |-> Null]
  /\ mappings = [n \in {jsonName(t) : t \in TemplateNames} |-> Null]
  /\ drawings = [n \in DrawingNames |-> Null]
  /\ drawingMappings = [n \in {jsonName(d) : d \in DrawingNames} |-> Null]
  /\ combinations = [n \in CombinationNames |-> Null]

\* ---------------------------------------------------------------- results
Thrown(message, item) == [status |-> "error", message |-> message, item |-> item]

\* the saved document: the template it was loaded from and the operations
\* drawn on its first page, in order
Bytes(templateName, ops) ==
  [status |-> "ok", bytes |-> [template |-> templateName, ops |-> ops]]

\* data[key], Undefined when the request does not carry the key
Lookup(data, key) == IF key \in DOMAIN data THEN data[key] ELSE Undefined

\* ------------------------------------------------------------- generatePDF
\* faulty variant: a template without a mapping table is returned unmodified
generatePDF_blankWithoutMapping(templateName, data) ==
  IF templates[templateName] = Null
  THEN Thrown("Template not found", templateName)
  ELSE IF mappings[jsonName(templateName)] = Null
  THEN Bytes(templateName, <<>>)
  ELSE Bytes(templateName,
             renderFieldsGeneratePDF("base", templates[templateName].height,
                                     mappings[jsonName(templateName)].fields, data))

generatePDF(templateName, data) ==
  IF templates[templateName] = Null
  THEN Thrown("Template not found", templateName)
  ELSE IF mappings[jsonName(templateName)] = Null
  THEN Thrown("Mapping not found for template", templateName)
  ELSE Bytes(templateName,
             renderFieldsGeneratePDF("base", templates[templateName].height,
                                     mappings[jsonName(templateName)].fields, data))

\* ------------------------------------------------- generateWithCombination
\* faulty variant: the condition of a placement is not looked at
placementSkipped_never(placement, templateData) == FALSE

\* the condition step of the placement loop
placementSkipped(placement, templateData) ==
  /\ placement.conditionField # ""
  /\ Truthy(placement.conditionValue)
  /\ Lookup(templateData, placement.conditionField) # placement.conditionValue

\* contained fit of a natural size into the placement rectangle; the sizes and
\* offsets are fractions [n, d], the comparison of the two aspect ratios is
\* done by cross multiplication
Frac(n, d) == [n |-> n, d |-> d]

\* faulty variant: the content is stretched to the placement rectangle
containedFit_stretch(naturalWidth, naturalHeight, placement) ==
  [finalWidth  |-> Frac(placement.width, 1),
   finalHeight |-> Frac(placement.height, 1),
   offsetX     |-> Frac(0, 1),
   offsetY     |-> Frac(0, 1)]

containedFit(naturalWidth, naturalHeight, placement) ==
  IF naturalWidth * placement.height > placement.width * naturalHeight
  THEN [finalWidth  |-> Frac(placement.width, 1),
        finalHeight |-> Frac(placement.width * naturalHeight, naturalWidth),
        offsetX     |-> Frac(0, 1),
        offsetY     |-> Frac(placement.height * naturalWidth
                               - placement.width * naturalHeight,
                             2 * naturalWidth)]
  ELSE [finalWidth  |-> Frac(placement.height * naturalWidth, naturalHeight),
        finalHeight |-> Frac(placement.height, 1),
        offsetX     |-> Frac(placement.width * naturalHeight
                               - placement.height * naturalWidth,
                             2 * naturalHeight),
        offsetY     |-> Frac(0, 1)]

\* faulty variant: the page of the drawing is embedded as it was loaded,
\* before its fields are drawn on it
drawEmbedded_beforeFields(op, index, placement, drawing, height, content) ==
  LET fit == containedFit(drawing.width, drawing.height, placement)
  IN  [op |-> op, page |-> "base", placement |-> index,
       drawing |-> placement.drawingName, content |-> <<>>,
       x |-> Frac(placement.x * fit.offsetX.d + fit.offsetX.n, fit.offsetX.d),
       y |-> Frac((height - placement.y - placement.height) * fit.offsetY.d
                    + fit.offsetY.n, fit.offsetY.d),
       width |-> fit.finalWidth, height |-> fit.finalHeight,
       rotate |-> placement.rotation]

\* firstPage.drawPage / firstPage.drawImage of one placement.  `content` is
\* what was drawn on the drawing's own page before it was embedded;
\* `placement` is not an argument of the call, it records the position in
\* combination.drawingPlacements of the placement that issued it.
drawEmbedded(op, index, placement, drawing, height, content) ==
  LET fit == containedFit(drawing.width, drawing.height, placement)
  IN  [op |-> op, page |-> "base", placement |-> index,
       drawing |-> placement.drawingName, content |-> content,
       x |-> Frac(placement.x * fit.offsetX.d + fit.offsetX.n, fit.offsetX.d),
       y |-> Frac((height - placement.y - placement.height) * fit.offsetY.d
                    + fit.offsetY.n, fit.offsetY.d),
       width |-> fit.finalWidth, height |-> fit.finalHeight,
       rotate |-> placement.rotation]

\* faulty variant: the fields of a drawing are laid out against the height
\* of the base page
embedPlacement_basePageHeight(index, placement, drawingsData, height) ==
  LET drawingName    == placement.drawingName
      drawing        == drawings[drawingName]
      drawingMapping == drawingMappings[jsonName(drawingName)]
      bucket         == drawingsData[drawingName]
      drawingData    == IF bucket = NoBucket
                        THEN [f \in FieldNames |-> Undefined] ELSE bucket
      drawingExt     == extname(drawingName)
  IN  IF drawing = Null THEN Thrown("Drawing not found", drawingName)
      ELSE IF drawingExt = ".pdf"
      THEN drawEmbedded("drawPage", index, placement, drawing, height,
             IF drawingMapping # Null
             THEN renderFieldsCombination(drawingName, height,
                                          drawingMapping.fields, drawingData)
             ELSE <<>>)
      ELSE IF drawingExt \in {".png", ".jpg", ".jpeg"}
      THEN drawEmbedded("drawImage", index, placement, drawing, height, <<>>)
      ELSE Null

\* the body of the placement loop after the condition step: Null when the
\* drawing's type is none the loop handles, a Thrown when the drawing is
\* missing, else the draw call
embedPlacement(index, placement, drawingsData, height) ==
  LET drawingName    == placement.drawingName
      drawing        == drawings[drawingName]
      drawingMapping == drawingMappings[jsonName(drawingName)]
      bucket         == drawingsData[drawingName]
      drawingData    == IF bucket = NoBucket
                        THEN [f \in FieldNames |-> Undefined] ELSE bucket
      drawingExt     == extname(drawingName)
  IN  IF drawing = Null THEN Thrown("Drawing not found", drawingName)
      ELSE IF drawingExt = ".pdf"
      THEN drawEmbedded("drawPage", index, placement, drawing, height,
             IF drawingMapping # Null
             THEN renderFieldsCombination(drawingName, drawing.height,
                                          drawingMapping.fields, drawingData)
             ELSE <<>>)
      ELSE IF drawingExt \in {".png", ".jpg", ".jpeg"}
      THEN drawEmbedded("drawImage", index, placement, drawing, height, <<>>)
      ELSE Null

\* faulty variant: a placement whose drawing is missing is passed over
placementLoop_skipsMissing(placements, index, templateData, drawingsData, height, ops) ==
  LET RECURSIVE loop(_, _)
      loop(i, drawnOps) ==
        IF i > Len(placements) THEN [error |-> Null, ops |-> drawnOps]
        ELSE IF placementSkipped(placements[i], templateData)
        THEN loop(i + 1, drawnOps)
        ELSE LET drawn == embedPlacement(i, placements[i], drawingsData, height)
             IN  IF drawn = Null THEN loop(i + 1, drawnOps)
                 ELSE IF "status" \in DOMAIN drawn THEN loop(i + 1, drawnOps)
                 ELSE loop(i + 1, Append(drawnOps, drawn))
  IN  loop(index, ops)

\* the placement loop from placement `index` on: the operations drawn so far,
\* or the first error thrown
RECURSIVE placementLoop(_, _, _, _, _, _)
placementLoop(placements, index, templateData, drawingsData, height, ops) ==
  IF index > Len(placements) THEN [error |-> Null, ops |-> ops]
  ELSE IF placementSkipped(placements[index], templateData)
  THEN placementLoop(placements, index + 1, templateData, drawingsData, height, ops)
  ELSE LET drawn == embedPlacement(index, placements[index], drawingsData, height)
       IN  IF drawn = Null
           THEN placementLoop(placements, index + 1, templateData, drawingsData,
                              height, ops)
           ELSE IF "status" \in DOMAIN drawn
           THEN [error |-> drawn, ops |-> ops]
           ELSE placementLoop(placements, index + 1, templateData, drawingsData,
                              height, Append(ops, drawn))

\* faulty variant: a base template without a mapping table is an error, as
\* in generatePDF
generateWithCombination_needsMapping(combinationName, templateData, drawingsData) ==
  LET combination == combinations[combinationName]
  IN  IF combination = Null
      THEN Thrown("Combination not found", combinationName)
      ELSE IF templates[combination.templateName] = Null
      THEN Thrown("Template not found", combination.templateName)
      ELSE IF mappings[jsonName(combination.templateName)] = Null
      THEN Thrown("Mapping not found for template", combination.templateName)
      ELSE LET height          == templates[combination.templateName].height
               templateMapping == mappings[jsonName(combination.templateName)]
               fieldOps        == renderFieldsCombination("base", height,
                                    templateMapping.fields, templateData)
               placed          == placementLoop(combination.drawingPlacements, 1,
                                    templateData, drawingsData, height, fieldOps)
           IN  IF placed.error # Null THEN placed.error
               ELSE Bytes(combination.templateName, placed.ops)

generateWithCombination(combinationName, templateData, drawingsData) ==
  LET combination == combinations[combinationName]
  IN  IF combination = Null
      THEN Thrown("Combination not found", combinationName)
      ELSE IF templates[combination.templateName] = Null
      THEN Thrown("Template not found", combination.templateName)
      ELSE LET height          == templates[combination.templateName].height
               templateMapping == mappings[jsonName(combination.templateName)]
               fieldOps        == IF templateMapping # Null
                                  THEN renderFieldsCombination("base", height,
                                         templateMapping.fields, templateData)
                                  ELSE <<>>
               placed          == placementLoop(combination.drawingPlacements, 1,
                                    templateData, drawingsData, height, fieldOps)
           IN  IF placed.error # Null THEN placed.error
               ELSE Bytes(combination.templateName, placed.ops)

\* ------------------------------------------ specification of the service
\* a field mapping as stored; a property the stored JSON does not carry is
\* 0, "" or <<>>
FieldMapping(x, y, size, align, maxWidth, maxHeight) ==
  [x |-> x, y |-> y, size |-> size, align |-> align, color |-> "",
   fontFamily |-> <<>>, maxWidth |-> maxWidth, maxHeight |-> maxHeight,
   bold |-> FALSE, italic |-> FALSE,
   conditionField |-> "", conditionOperator |-> "", conditionValue |-> <<>>]

WithCondition(m, field, operator, value) ==
  [m EXCEPT !.conditionField = field, !.conditionOperator = operator,
            !.conditionValue = value]

\* the field of the end-to-end scenario of the documentation
fmPlain == FieldMapping(50, 50, 12, "left", 150, 0)

\* no size limits stored, a legacy font hint, flags and a colour
fmBig ==
  [FieldMapping(10, 20, 100, "center", 0, 150) EXCEPT
     !.fontFamily = <<"Times", "-Bold">>, !.italic = TRUE, !.color = "#ff0000"]

fmEquals ==
  WithCondition(FieldMapping(50, 50, 0, "right", 30, 0), "status", "equals", <<"a">>)

fmNotEquals ==
  WithCondition(FieldMapping(50, 50, 12, "", 30, 0), "status", "not_equals", <<"a">>)

NameMappings == {fmPlain, fmBig, fmEquals, fmNotEquals}

Entry(fieldName, fieldMapping) == [fieldName |-> fieldName, fieldMapping |-> fieldMapping]

\* the mapping tables a template can be stored with
TemplateTables ==
  {Table(<<>>), Table(<<Entry("status", fmPlain)>>)}
  \cup {Table(<<Entry("name", m)>>) : m \in NameMappings}
  \cup {Table(<<Entry("name", m), Entry("status", fmPlain)>>) : m \in NameMappings}
  \cup {Table(<<Entry("status", fmPlain), Entry("name", m)>>) : m \in NameMappings}

\* the mapping tables a drawing can be stored with
DrawingTables ==
  {Table(<<Entry("name", fmPlain)>>),
   Table(<<Entry("name", fmEquals), Entry("status", fmPlain)>>)}

NameValues == {Undefined, <<>>, <<"a">>, <<"b", " ", "a">>, <<" ", "a">>}
StatusValues == {Undefined, <<"a">>, <<"b">>}

DataRecords == {[name |-> n, status |-> st] : n \in NameValues, st \in StatusValues}

\* the data buckets a request carries for the PDF drawing; its status differs
\* from the one of the template data in some requests
DrawingBuckets ==
  {NoBucket,
   [name |-> <<"a">>, status |-> Undefined],
   [name |-> <<"b", " ", "a">>, status |-> <<"a">>]}

Placement(drawingName, x, y, width, height, rotation) ==
  [drawingName |-> drawingName, x |-> x, y |-> y, width |-> width,
   height |-> height, rotation |-> rotation,
   conditionField |-> "", conditionOperator |-> "", conditionValue |-> <<>>]

Placements ==
  {Placement(FileName("d", ".pdf"), 10, 10, 100, 100, 0),
   WithCondition(Placement(FileName("d", ".pdf"), 20, 30, 100, 100, 90),
                 "status", "equals", <<"a">>),
   WithCondition(Placement(FileName("d", ".png"), 0, 0, 50, 200, 0),
                 "status", "not_equals", <<"a">>),
   WithCondition(Placement(FileName("d", ".png"), 5, 5, 60, 60, 45),
                 "status", "equals", <<>>),
   Placement(FileName("d", ".svg"), 30, 40, 80, 80, 0)}

\* most placements of a stored combination
MaxPlacements == 2

RECURSIVE SeqsUpTo(_, _)
SeqsUpTo(S, n) ==
  IF n = 0 THEN {<<>>}
  ELSE LET shorter == SeqsUpTo(S, n - 1)
       IN  shorter \cup {Append(q, e) : q \in shorter, e \in S}

Combinations ==
  {[name |-> "c", templateName |-> FileName("t", ".pdf"), drawingPlacements |-> ps] :
     ps \in SeqsUpTo(Placements, MaxPlacements)}

\* the natural size of a stored drawing
DrawingFiles ==
  [d \in DrawingNames |->
     IF d.ext = ".pdf" THEN [width |-> 400, height |-> 200]
     ELSE [width |-> 100, height |-> 300]]

\* the constructor only makes sure the directories exist: what they hold is
\* whatever was stored before
Init ==
  /\ templates \in [TemplateNames -> {Null, [height |-> 842]}]
  /\ mappings \in [{jsonName(t) : t \in TemplateNames} -> {Null} \cup TemplateTables]
  /\ drawings \in {[d \in DrawingNames |-> IF d \in present THEN DrawingFiles[d] ELSE Null] :
                     present \in SUBSET DrawingNames}
  /\ drawingMappings \in [{jsonName(d) : d \in DrawingNames} -> {Null} \cup DrawingTables]
  /\ combinations \in [CombinationNames -> {Null} \cup Combinations]
  /\ fn = "idle"
  /\ args = NoValue
  /\ ret = NoValue
  /\ NoneInFlight

\* faulty variant: a call for a template without a mapping table stores an
\* empty one
CallGeneratePDF_storesMapping ==
  \E templateName \in TemplateNames, data \in DataRecords :
    /\ fn = "idle"
    /\ fn' = "generatePDF"
    /\ args' = [templateName |-> templateName, data |-> data]
    /\ ret' = generatePDF(templateName, data)
    /\ mappings' = IF mappings[jsonName(templateName)] = Null
                   THEN [mappings EXCEPT ![jsonName(templateName)] = Table(<<>>)]
                   ELSE mappings
    /\ UNCHANGED <<templates, drawings, drawingMappings, combinations, inflight>>

CallGeneratePDF ==
  \E templateName \in TemplateNames, data \in DataRecords :
    /\ fn = "idle"
    /\ fn' = "generatePDF"
    /\ args' = [templateName |-> templateName, data |-> data]
    /\ ret' = generatePDF(templateName, data)
    /\ UNCHANGED <<storage, inflight>>

CallGenerateWithCombination ==
  \E combinationName \in CombinationNames, templateData \in DataRecords,
     bucket \in DrawingBuckets :
    LET drawingsData == [d \in DrawingNames |->
                           IF d.ext = ".pdf" THEN bucket ELSE NoBucket]
    IN  /\ fn = "idle"
        /\ fn' = "generateWithCombination"
        /\ args' = [combinationName |-> combinationName,
                    templateData |-> templateData, drawingsData |-> drawingsData]
        /\ ret' = generateWithCombination(combinationName, templateData, drawingsData)
        /\ UNCHANGED <<storage, inflight>>

Next == CallGeneratePDF \/ CallGenerateWithCombination

Spec == Init /\ [][Next]_vars

\* ------------------------------------------------- claims on the service
\* fractions with positive denominators
FracEq(a, b) == a.n * b.d = b.n * a.d
FracLeq(a, b) == a.n * b.d <= b.n * a.d
FracMinus(a, b) == Frac(a.n * b.d - b.n * a.d, a.d * b.d)
FracHalf(a) == Frac(a.n, 2 * a.d)
Whole(k) == Frac(k, 1)

Generated == fn = "generatePDF" /\ ret # NoValue
Combined == fn = "generateWithCombination" /\ ret # NoValue
Succeeded == (Generated \/ Combined) /\ ret.status = "ok"

CalledCombination == combinations[args.combinationName]

\* the mapping table of the base template of the call, and its data
BaseTemplate == IF Generated THEN args.templateName ELSE CalledCombination.templateName
BaseTable == mappings[jsonName(BaseTemplate)]
BaseFields == IF BaseTable = Null THEN <<>> ELSE BaseTable.fields
BaseData == IF Generated THEN args.data ELSE args.templateData

\* the draw-text calls issued for one field among the operations of a page
TextCalls(ops, fieldName) ==
  {k \in 1..Len(ops) : ops[k].op = "drawText" /\ ops[k].field = fieldName}

\* the embedded-content calls of a successful combination
EmbedCalls == {k \in 1..Len(ret.bytes.ops) : ret.bytes.ops[k].op \in {"drawPage", "drawImage"}}

Embedded(index) == \E k \in EmbedCalls : ret.bytes.ops[k].placement = index

\* the data a drawing's fields are filled from
DrawingDataOf(drawingName) ==
  IF args.drawingsData[drawingName] = NoBucket
  THEN [f \in FieldNames |-> Undefined]
  ELSE args.drawingsData[drawingName]

\* every page a successful call drew fields on: its mapping entries, its data,
\* the operations drawn on it and its height
FilledPages ==
  {[fields |-> BaseFields, data |-> BaseData, ops |-> ret.bytes.ops,
    height |-> templates[BaseTemplate].height]}
  \cup (IF Combined
        THEN {[fields |-> (IF drawingMappings[jsonName(ret.bytes.ops[k].drawing)] = Null
                           THEN <<>>
                           ELSE drawingMappings[jsonName(ret.bytes.ops[k].drawing)].fields),
               data   |-> DrawingDataOf(ret.bytes.ops[k].drawing),
               ops    |-> ret.bytes.ops[k].content,
               height |-> drawings[ret.bytes.ops[k].drawing].height] :
                k \in {j \in EmbedCalls : ret.bytes.ops[j].op = "drawPage"}}
        ELSE {})

\* C1: generatePDF for a stored template without a mapping table fails with a
\* not-found error and returns no bytes
C1_MissingMappingIsNotFound ==
  (Generated /\ templates[args.templateName] # Null
             /\ mappings[jsonName(args.templateName)] = Null) =>
    /\ ret.status = "error"
    /\ ret.message = "Mapping not found for template"
    /\ ret.item = args.templateName
    /\ "bytes" \notin DOMAIN ret

C1_Witness ==
  /\ Generated
  /\ templates[args.templateName] # Null
  /\ mappings[jsonName(args.templateName)] = Null
  /\ ret.status = "error"

\* the drawing of the placement is of a type the placement loop embeds
Embeddable(p) == extname(p.drawingName) \in {".pdf", ".png", ".jpg", ".jpeg"}

HasCondition(m) ==
  /\ m.conditionField # ""
  /\ m.conditionOperator \in {"equals", "not_equals"}
  /\ Truthy(m.conditionValue)

\* the condition as the documentation defines it
ConditionHolds(m, data) ==
  IF m.conditionOperator = "not_equals"
  THEN Lookup(data, m.conditionField) # m.conditionValue
  ELSE Lookup(data, m.conditionField) = m.conditionValue

\* C2: a field mapping with a condition is drawn only when the condition
\* holds of the data, in generatePDF and for the template fields and the
\* drawing fields of generateWithCombination
C2_FieldConditionDecidesDrawing ==
  Succeeded =>
    \A pg \in FilledPages :
      \A e \in 1..Len(pg.fields) :
        (HasCondition(pg.fields[e].fieldMapping)
           /\ ~ConditionHolds(pg.fields[e].fieldMapping, pg.data))
          => TextCalls(pg.ops, pg.fields[e].fieldName) = {}

\* C3: a placement with operator equals, a condition field and a non-empty
\* condition value is skipped exactly when templateData[conditionField] is not
\* the condition value, whatever the drawing's own data say; a placement
\* without a condition is never skipped.  Skipping shows in the output for
\* the placements whose drawing is of a type the loop embeds.
C3_PlacementEqualsCondition ==
  (Combined /\ ret.status = "ok") =>
    \A i \in 1..Len(CalledCombination.drawingPlacements) :
      LET p == CalledCombination.drawingPlacements[i]
      IN  Embeddable(p) =>
            /\ (p.conditionField # "" /\ Truthy(p.conditionValue)
                  /\ p.conditionOperator = "equals")
                 => (~Embedded(i) <=>
                       Lookup(args.templateData, p.conditionField) # p.conditionValue)
            /\ (p.conditionField = "" \/ ~Truthy(p.conditionValue)) => Embedded(i)

\* a placement skipped on the template's data although the drawing's own data
\* satisfy its condition, next to an embedded placement that has no condition value
C3_Witness ==
  /\ Combined /\ ret.status = "ok"
  /\ \E i \in 1..Len(CalledCombination.drawingPlacements) :
       LET p == CalledCombination.drawingPlacements[i]
       IN  /\ p.conditionOperator = "equals" /\ Truthy(p.conditionValue)
           /\ args.drawingsData[p.drawingName] # NoBucket
           /\ args.drawingsData[p.drawingName][p.conditionField] = p.conditionValue
           /\ args.templateData[p.conditionField] # p.conditionValue
           /\ ~Embedded(i)
  /\ \E i \in 1..Len(CalledCombination.drawingPlacements) :
       LET p == CalledCombination.drawingPlacements[i]
       IN  p.conditionField # "" /\ ~Truthy(p.conditionValue) /\ Embedded(i)

\* C4: a placement with operator not_equals is embedded exactly when
\* templateData[conditionField] differs from the condition value
C4_PlacementNotEqualsInverts ==
  (Combined /\ ret.status = "ok") =>
    \A i \in 1..Len(CalledCombination.drawingPlacements) :
      LET p == CalledCombination.drawingPlacements[i]
      IN  (Embeddable(p) /\ p.conditionField # "" /\ Truthy(p.conditionValue)
             /\ p.conditionOperator = "not_equals")
            => (Embedded(i) <=>
                  Lookup(args.templateData, p.conditionField) # p.conditionValue)

EffSize(m) == IF m.size = 0 THEN 12 ELSE m.size
EffMaxWidth(m) == IF m.maxWidth = 0 THEN 200 ELSE m.maxWidth
EffMaxHeight(m) == IF m.maxHeight = 0 THEN 1000 ELSE m.maxHeight

HasWord(text) == \E i \in 1..Len(text) : text[i] # " "

StoredForCall ==
  IF Generated
  THEN templates[args.templateName] # Null /\ mappings[jsonName(args.templateName)] # Null
  ELSE /\ CalledCombination # Null
       /\ templates[CalledCombination.templateName] # Null
       /\ \A i \in 1..Len(CalledCombination.drawingPlacements) :
            drawings[CalledCombination.drawingPlacements[i].drawingName] # Null

\* C5: a mapped field whose name is absent from the data produces no
\* draw-text call, the call does not fail for it, and the other fields of the
\* table are still drawn
C5_AbsentValueDrawsNothing ==
  /\ ((Generated \/ Combined) /\ StoredForCall) => ret.status = "ok"
  /\ Succeeded =>
       \A pg \in FilledPages :
         \A e \in 1..Len(pg.fields) :
           LET m == pg.fields[e].fieldMapping
               v == pg.data[pg.fields[e].fieldName]
           IN  /\ v = Undefined => TextCalls(pg.ops, pg.fields[e].fieldName) = {}
               /\ (v # Undefined /\ HasWord(v) /\ EffSize(m) + 2 <= EffMaxHeight(m))
                    => TextCalls(pg.ops, pg.fields[e].fieldName) # {}

\* a table of two fields, the first without a value and not drawn, the second
\* drawn after it
C5_Witness ==
  /\ Succeeded
  /\ \E pg \in FilledPages :
       /\ Len(pg.fields) = 2
       /\ pg.data[pg.fields[1].fieldName] = Undefined
       /\ TextCalls(pg.ops, pg.fields[1].fieldName) = {}
       /\ pg.data[pg.fields[2].fieldName] # Undefined
       /\ TextCalls(pg.ops, pg.fields[2].fieldName) # {}

\* the font the called path measures a field with
PathFont(m) ==
  IF Generated THEN resolveFontGeneratePDF(m.fontFamily, m.bold, m.italic)
  ELSE resolveFontCombination(m.fontFamily, m.bold, m.italic)

\* C8: a present value whose measured width is <= maxWidth (200 when absent)
\* gets exactly one draw-text call, and its text is the value unchanged
C8_FittingValueOneCall ==
  Succeeded =>
    \A pg \in FilledPages :
      \A e \in 1..Len(pg.fields) :
        LET m == pg.fields[e].fieldMapping
            v == pg.data[pg.fields[e].fieldName]
            calls == TextCalls(pg.ops, pg.fields[e].fieldName)
        IN  (v # Undefined
               /\ widthOfTextAtSize(PathFont(m), v, EffSize(m)) <= EffMaxWidth(m))
              => /\ Cardinality(calls) = 1
                 /\ \A k \in calls : pg.ops[k].text = v

\* the draw-text calls of one field, in the order they were issued
TextOps(ops, fieldName) ==
  SelectSeq(ops, LAMBDA o : o.op = "drawText" /\ o.field = fieldName)

\* what a draw-text call shows on the page: its text and where it is drawn
Shown(ops) == [k \in 1..Len(ops) |-> [text |-> ops[k].text, x2 |-> ops[k].x2, y |-> ops[k].y]]

\* the called path hands the value to the layout code
ReachesLayout(v) ==
  IF Generated THEN ~skipsValueGeneratePDF(v) ELSE ~skipsValueCombination(v)

\* the general branch run on a field: wrapText, then the clipped, aligned lines
GeneralBranch(height, fieldName, m, textValue, font) ==
  drawLines("base", height, fieldName, m,
            wrapText(textValue, font, EffSize(m), EffMaxWidth(m)), 1,
            font, EffSize(m), EffMaxWidth(m), EffMaxHeight(m),
            hexToRgb(OrDefault(m.color, "", "#000000")))

Fits(m, v) == widthOfTextAtSize(PathFont(m), v, EffSize(m)) <= EffMaxWidth(m)

\* C11: for a field whose text fits within maxWidth, the draw-text calls of
\* the single-line branch are those the general branch (wrapText, maxHeight
\* clipping, per-line alignment) would issue: as many calls, with the same
\* text, x and y, for every text, the empty one and those with leading or
\* trailing spaces included
C11_SingleLineIsGeneralBranch ==
  Succeeded =>
    \A pg \in FilledPages :
      \A e \in 1..Len(pg.fields) :
        LET m == pg.fields[e].fieldMapping
            v == pg.data[pg.fields[e].fieldName]
        IN  (ReachesLayout(v) /\ Fits(m, v))
              => Shown(TextOps(pg.ops, pg.fields[e].fieldName))
                   = Shown(GeneralBranch(pg.height, pg.fields[e].fieldName, m, v, PathFont(m)))

\* the lines wrapText returns for a field of the called path
WrappedLines(m, v) == wrapText(v, PathFont(m), EffSize(m), EffMaxWidth(m))

\* the draw-text calls of a field are the first `count` lines, in order
DrawsPrefix(ops, lines, count) ==
  /\ Len(ops) = count
  /\ count <= Len(lines)
  /\ \A k \in 1..count : ops[k].text = lines[k]

\* C12 as stated: line Li of a wrapped field is drawn exactly when its offset
\* from the first baseline, i*(fontSize+2), does not exceed maxHeight; the
\* drawn lines are a prefix of the wrapped lines and dropping is no error
C12_DrawnIffOffsetWithinMaxHeight ==
  /\ ((Generated \/ Combined) /\ StoredForCall) => ret.status = "ok"
  /\ Succeeded =>
       \A pg \in FilledPages :
         \A e \in 1..Len(pg.fields) :
           LET m     == pg.fields[e].fieldMapping
               v     == pg.data[pg.fields[e].fieldName]
               lines == WrappedLines(m, v)
               ops   == TextOps(pg.ops, pg.fields[e].fieldName)
           IN  (ReachesLayout(v) /\ ~Fits(m, v))
                 => /\ \E count \in 0..Len(lines) : DrawsPrefix(ops, lines, count)
                    /\ \A i \in 0..(Len(lines) - 1) :
                         (i + 1 <= Len(ops)) <=> (i * (EffSize(m) + 2) <= EffMaxHeight(m))

\* C12 (amended): line Li of a wrapped field is drawn exactly when it ends
\* within maxHeight, (i+1)*(fontSize+2) <= maxHeight; the drawn lines are a
\* prefix of the wrapped lines, the dropped ones a suffix, and dropping is no
\* error
C12_DrawnIffLineEndsWithinMaxHeight ==
  /\ ((Generated \/ Combined) /\ StoredForCall) => ret.status = "ok"
  /\ Succeeded =>
       \A pg \in FilledPages :
         \A e \in 1..Len(pg.fields) :
           LET m     == pg.fields[e].fieldMapping
               v     == pg.data[pg.fields[e].fieldName]
               lines == WrappedLines(m, v)
               ops   == TextOps(pg.ops, pg.fields[e].fieldName)
           IN  (ReachesLayout(v) /\ ~Fits(m, v))
                 => /\ \E count \in 0..Len(lines) : DrawsPrefix(ops, lines, count)
                    /\ \A i \in 0..(Len(lines) - 1) :
                         (i + 1 <= Len(ops))
                           <=> ((i + 1) * (EffSize(m) + 2) <= EffMaxHeight(m))

\* a wrapped field of two lines whose second line starts within maxHeight but
\* ends beyond it: the first line is drawn, the second is dropped
C12_Witness ==
  /\ Succeeded
  /\ \E pg \in FilledPages :
       \E e \in 1..Len(pg.fields) :
         LET m     == pg.fields[e].fieldMapping
             v     == pg.data[pg.fields[e].fieldName]
         IN  /\ ReachesLayout(v) /\ ~Fits(m, v)
             /\ Len(WrappedLines(m, v)) = 2
             /\ EffSize(m) + 2 <= EffMaxHeight(m)
             /\ 2 * (EffSize(m) + 2) > EffMaxHeight(m)
             /\ DrawsPrefix(TextOps(pg.ops, pg.fields[e].fieldName), WrappedLines(m, v), 1)

EmbedCallsOf(index) == {k \in EmbedCalls : ret.bytes.ops[k].placement = index}

\* C15: in a successful generateWithCombination every placement not skipped
\* by its condition has exactly one draw-embedded-content call on the base
\* page, at (placement.x + offsetX, pageHeight - placement.y -
\* placement.height + offsetY) with the fitted size, and with rotation equal
\* to placement.rotation, which does not change the fitted size or offsets;
\* no such placement is left out, whatever the drawing's file type
C15_EveryPlacementEmbeddedOnce ==
  (Combined /\ ret.status = "ok") =>
    \A i \in 1..Len(CalledCombination.drawingPlacements) :
      LET p   == CalledCombination.drawingPlacements[i]
          d   == drawings[p.drawingName]
          H   == templates[BaseTemplate].height
          fit == containedFit(d.width, d.height, [p EXCEPT !.rotation = 0])
      IN  ~placementSkipped(p, args.templateData) =>
            /\ Cardinality(EmbedCallsOf(i)) = 1
            /\ \A k \in EmbedCallsOf(i) :
                 LET call == ret.bytes.ops[k]
                 IN  /\ call.page = "base"
                     /\ FracEq(call.x, FracMinus(Whole(p.x), FracMinus(Whole(0), fit.offsetX)))
                     /\ FracEq(call.y, FracMinus(Whole(H - p.y - p.height),
                                                 FracMinus(Whole(0), fit.offsetY)))
                     /\ FracEq(call.width, fit.finalWidth)
                     /\ FracEq(call.height, fit.finalHeight)
                     /\ call.rotate = p.rotation

CalledPlacements == CalledCombination.drawingPlacements

\* the placements of the called combination that pass the condition step
NotSkipped == {i \in 1..Len(CalledPlacements) :
                 ~placementSkipped(CalledPlacements[i], args.templateData)}

Fails(message, item) ==
  /\ ret.status = "error"
  /\ ret.message = message
  /\ ret.item = item
  /\ "bytes" \notin DOMAIN ret

\* C16 as stated: when the combination, its base template or the drawing of
\* any placement is not stored, generateWithCombination fails with an error
\* naming the missing item and returns no bytes; bytes are returned only
\* after every placement has been processed
C16_AnyMissingDrawingFails ==
  Combined =>
    /\ CalledCombination = Null => Fails("Combination not found", args.combinationName)
    /\ (CalledCombination # Null /\ templates[BaseTemplate] = Null)
         => Fails("Template not found", BaseTemplate)
    /\ (CalledCombination # Null /\ templates[BaseTemplate] # Null
          /\ \E i \in 1..Len(CalledPlacements) : drawings[CalledPlacements[i].drawingName] = Null)
         => \E i \in 1..Len(CalledPlacements) :
              /\ drawings[CalledPlacements[i].drawingName] = Null
              /\ Fails("Drawing not found", CalledPlacements[i].drawingName)
    /\ ret.status = "ok" =>
         \A i \in NotSkipped :
           /\ drawings[CalledPlacements[i].drawingName] # Null
           /\ Embeddable(CalledPlacements[i]) => Embedded(i)

\* C16 (amended): the call fails, naming the missing item and returning no
\* bytes, when the combination, its base template, or the drawing of a
\* placement that passes the condition step is not stored; the drawing of a
\* placement skipped by its condition is not looked up.  Bytes are returned
\* only after every placement has been processed.
C16_MissingItemOfUsedPlacementFails ==
  Combined =>
    /\ CalledCombination = Null => Fails("Combination not found", args.combinationName)
    /\ (CalledCombination # Null /\ templates[BaseTemplate] = Null)
         => Fails("Template not found", BaseTemplate)
    /\ (CalledCombination # Null /\ templates[BaseTemplate] # Null
          /\ \E i \in NotSkipped : drawings[CalledPlacements[i].drawingName] = Null)
         => \E i \in NotSkipped :
              /\ drawings[CalledPlacements[i].drawingName] = Null
              /\ \A j \in NotSkipped : j < i => drawings[CalledPlacements[j].drawingName] # Null
              /\ Fails("Drawing not found", CalledPlacements[i].drawingName)
    /\ (CalledCombination # Null /\ templates[BaseTemplate] # Null
          /\ \A i \in NotSkipped : drawings[CalledPlacements[i].drawingName] # Null)
         => ret.status = "ok"
    /\ ret.status = "ok" =>
         \A i \in NotSkipped :
           /\ drawings[CalledPlacements[i].drawingName] # Null
           /\ Embeddable(CalledPlacements[i]) => Embedded(i)

\* the second placement's drawing is missing after a first placement whose
\* drawing is stored: the call fails naming the second drawing
C16_Witness ==
  /\ Combined
  /\ CalledCombination # Null /\ templates[BaseTemplate] # Null
  /\ Len(CalledPlacements) = 2
  /\ NotSkipped = {1, 2}
  /\ drawings[CalledPlacements[1].drawingName] # Null
  /\ drawings[CalledPlacements[2].drawingName] = Null
  /\ Fails("Drawing not found", CalledPlacements[2].drawingName)

\* C17: generateWithCombination does not fail because a mapping table is
\* missing: without a mapping table for the base template it draws no template
\* field, without one for a PDF drawing it draws no field on that drawing, and
\* in both cases it embeds the placements and returns bytes
C17_MissingMappingTolerated ==
  (Combined /\ CalledCombination # Null /\ templates[BaseTemplate] # Null
     /\ \A i \in NotSkipped : drawings[CalledPlacements[i].drawingName] # Null) =>
    /\ ret.status = "ok"
    /\ BaseTable = Null =>
         \A k \in 1..Len(ret.bytes.ops) : ret.bytes.ops[k].op # "drawText"
    /\ \A k \in EmbedCalls :
         (ret.bytes.ops[k].op = "drawPage"
            /\ drawingMappings[jsonName(ret.bytes.ops[k].drawing)] = Null)
           => ret.bytes.ops[k].content = <<>>
    /\ \A i \in NotSkipped : Embeddable(CalledPlacements[i]) => Embedded(i)

\* neither the base template nor the PDF drawing has a mapping table, the
\* request carries values for both, and the drawing is embedded with nothing
\* drawn on it or on the base page
C17_Witness ==
  /\ Combined /\ ret.status = "ok"
  /\ BaseTable = Null
  /\ args.templateData.name \notin {Undefined, <<>>}
  /\ \E k \in EmbedCalls :
       /\ ret.bytes.ops[k].op = "drawPage"
       /\ drawingMappings[jsonName(ret.bytes.ops[k].drawing)] = Null
       /\ args.drawingsData[ret.bytes.ops[k].drawing] # NoBucket
       /\ ret.bytes.ops[k].content = <<>>
  /\ Len(ret.bytes.ops) = Cardinality(EmbedCalls)

\* C18: generatePDF and generateWithCombination never change stored data:
\* after any call, successful or failed, the stored templates, template
\* mappings, drawings, drawing mappings and combinations are what they were
\* before the call
C18_RenderingLeavesStorage ==
  [][(fn' \in {"generatePDF", "generateWithCombination"} /\ ret' # NoValue)
       => /\ templates' = templates
          /\ mappings' = mappings
          /\ drawings' = drawings
          /\ drawingMappings' = drawingMappings
          /\ combinations' = combinations]_vars

\* a failed generatePDF (no mapping table) and a combination that failed on a
\* missing drawing after drawing on the base page, each over storage that
\* holds data
C18_Witness ==
  \/ /\ Generated /\ ret.status = "error"
     /\ templates[args.templateName] # Null
     /\ mappings[jsonName(args.templateName)] = Null
     /\ combinations[CHOOSE c \in CombinationNames : TRUE] # Null
  \/ /\ Combined /\ ret.status = "error"
     /\ ret.message = "Drawing not found"
     /\ BaseTable # Null
     /\ \E d \in DrawingNames : drawings[d] # Null

\* twice the horizontal offset the alignment gives a line of the measured
\* width inside maxWidth
AlignOffset2(m, lineWidth) ==
  CASE m.align \in {"left", ""} -> 0
    [] m.align = "center" -> EffMaxWidth(m) - lineWidth
    [] m.align = "right" -> 2 * (EffMaxWidth(m) - lineWidth)

\* the measured width of the text of a draw-text call
DrawnWidth(o) == widthOfTextAtSize(o.font, o.text, o.size)

\* C24: every drawn line of a field is placed at x = field.x + offset, the
\* offset being 0 for left alignment and when the alignment is absent,
\* (maxWidth - lineWidth)/2 for center and maxWidth - lineWidth for right,
\* with the measured width of that line itself; a line no wider than maxWidth
\* lies within [field.x, field.x + maxWidth]
C24_LineAlignedByOwnWidth ==
  Succeeded =>
    \A pg \in FilledPages :
      \A e \in 1..Len(pg.fields) :
        LET m   == pg.fields[e].fieldMapping
            ops == TextOps(pg.ops, pg.fields[e].fieldName)
        IN  \A k \in 1..Len(ops) :
              /\ ops[k].x2 = 2 * m.x + AlignOffset2(m, DrawnWidth(ops[k]))
              /\ DrawnWidth(ops[k]) <= EffMaxWidth(m) =>
                   /\ 2 * m.x <= ops[k].x2
                   /\ ops[k].x2 + 2 * DrawnWidth(ops[k]) <= 2 * (m.x + EffMaxWidth(m))

\* a right-aligned field wrapped into two lines of different widths, each
\* ending at the right edge
C24_Witness ==
  /\ Succeeded
  /\ \E e \in 1..Len(BaseFields) :
       LET m   == BaseFields[e].fieldMapping
           ops == TextOps(ret.bytes.ops, BaseFields[e].fieldName)
       IN  /\ m.align = "right"
           /\ Len(ops) = 2
           /\ DrawnWidth(ops[1]) # DrawnWidth(ops[2])
           /\ \A k \in 1..2 :
                ops[k].x2 + 2 * DrawnWidth(ops[k]) = 2 * (m.x + EffMaxWidth(m))

\* the operation is a draw-embedded-content call
IsEmbedCall(o) == o.op \in {"drawPage", "drawImage"}

\* C25: in generateWithCombination every draw-text call for the fields of the
\* base template comes before the first draw-embedded-content call, the
\* draw-embedded-content calls come in the order of
\* combination.drawingPlacements, and the text of a PDF drawing is on that
\* drawing's page when the page is embedded: the embedded content holds the
\* draw-text calls of every mapped field of the drawing that has a value
C25_FieldsThenPlacementsInOrder ==
  (Combined /\ ret.status = "ok") =>
    LET ops == ret.bytes.ops
    IN  /\ \A i, j \in 1..Len(ops) :
             (i < j /\ IsEmbedCall(ops[i])) =>
               /\ IsEmbedCall(ops[j])
               /\ ops[i].placement < ops[j].placement
        /\ \A k \in 1..Len(ops) : ~IsEmbedCall(ops[k]) => ops[k].page = "base"
        /\ \A k \in EmbedCalls :
             LET table == drawingMappings[jsonName(ops[k].drawing)]
             IN  /\ \A c \in 1..Len(ops[k].content) :
                      /\ ops[k].content[c].op = "drawText"
                      /\ ops[k].content[c].page = ops[k].drawing
                 /\ (ops[k].op = "drawPage" /\ table # Null) =>
                      \A e \in 1..Len(table.fields) :
                        Truthy(TextOf(DrawingDataOf(ops[k].drawing)[table.fields[e].fieldName]))
                          => TextCalls(ops[k].content, table.fields[e].fieldName) # {}

\* text of the base template, then a PDF drawing that carries its own text,
\* then an image on top of it
C25_Witness ==
  /\ Combined /\ ret.status = "ok"
  /\ Len(ret.bytes.ops) = 3
  /\ ret.bytes.ops[1].op = "drawText"
  /\ ret.bytes.ops[2].op = "drawPage" /\ ret.bytes.ops[2].placement = 1
  /\ ret.bytes.ops[2].content # <<>>
  /\ ret.bytes.ops[3].op = "drawImage" /\ ret.bytes.ops[3].placement = 2

\* C27: for the same base template, mapping table and data,
\* generateWithCombination on a combination without placements issues
\* exactly the draw-text calls of generatePDF (the same fields drawn, with the
\* same font, text, x, y, size and colour), for every fontFamily hint, legacy
\* hints with a variant suffix included, and every data value, the empty
\* string included
C27_CombinationWithoutPlacementsIsGeneratePDF ==
  (/\ Combined
   /\ CalledCombination # Null
   /\ Len(CalledCombination.drawingPlacements) = 0
   /\ templates[CalledCombination.templateName] # Null
   /\ mappings[jsonName(CalledCombination.templateName)] # Null) =>
    ret = generatePDF(CalledCombination.templateName, args.templateData)

\* -------------------------------------------- specification of wrapText
WrapFonts == {"Helvetica", "Courier"}
WrapSizes == {1, 2}

WrapArgs ==
  [text : TextsUpTo(MaxTextLen), font : WrapFonts, fontSize : WrapSizes,
   maxWidth : 1..MaxWrapWidth]

\* wrapText is private: its callers hand it a text only when the whole text
\* measures more than maxWidth, and maxWidth is never 0 (fieldMapping.maxWidth || 200)
InitWrap ==
  /\ EmptyStorage
  /\ fn = "wrapText"
  /\ args \in WrapArgs
  /\ widthOfTextAtSize(args.font, args.text, args.fontSize) > args.maxWidth
  /\ ret = NoValue
  /\ NoneInFlight

CallWrapText ==
  /\ fn = "wrapText"
  /\ ret = NoValue
  /\ ret' = [lines |-> wrapText(args.text, args.font, args.fontSize, args.maxWidth)]
  /\ UNCHANGED <<storage, fn, args, inflight>>

NextWrap == CallWrapText

SpecWrap == InitWrap /\ [][NextWrap]_vars

\* ------------------------------------------------------- claims on wrapText
WrapReturned == fn = "wrapText" /\ ret # NoValue

WrapWords == split(args.text)

\* the lines joined with single spaces
RECURSIVE join(_)
join(lines) ==
  IF lines = <<>> THEN <<>>
  ELSE IF Len(lines) = 1 THEN lines[1]
  ELSE lines[1] \o <<" ">> \o join(Tail(lines))

IsWideWord(w) == widthOfTextAtSize(args.font, w, args.fontSize) > args.maxWidth

\* C9: joining the lines returned by wrapText with single spaces gives back
\* the text exactly, for every text, leading, trailing and consecutive spaces
\* included
C9_JoinReconstructsText ==
  WrapReturned => join(ret.lines) = args.text

\* C10: a word wider than maxWidth is never split and never dropped: each of
\* its occurrences is a line of its own, and no line holds it together with
\* another word
C10_WideWordAlone ==
  WrapReturned =>
    /\ \A i \in 1..Len(WrapWords) :
         IsWideWord(WrapWords[i]) =>
           Cardinality({j \in 1..Len(ret.lines) : ret.lines[j] = WrapWords[i]})
             = Cardinality({k \in 1..Len(WrapWords) : WrapWords[k] = WrapWords[i]})
    /\ \A j \in 1..Len(ret.lines) :
         \A k \in 1..Len(split(ret.lines[j])) :
           IsWideWord(split(ret.lines[j])[k]) => Len(split(ret.lines[j])) = 1

\* a wide word between two narrower words, each on a line of its own
C10_Witness ==
  /\ WrapReturned
  /\ Len(WrapWords) = 3
  /\ ~IsWideWord(WrapWords[1]) /\ Truthy(WrapWords[1])
  /\ IsWideWord(WrapWords[2])
  /\ ~IsWideWord(WrapWords[3]) /\ Truthy(WrapWords[3])
  /\ ret.lines = WrapWords

\* the measured width of a line of the call
LineWidth(line) == widthOfTextAtSize(args.font, line, args.fontSize)

\* C23: every returned line that holds more than one word measures at most
\* maxWidth, no returned line is empty, and a line ends before a word only
\* when the line with a space and that word appended would measure more than
\* maxWidth
C23_GreedyLines ==
  WrapReturned =>
    /\ \A j \in 1..Len(ret.lines) :
         /\ ret.lines[j] # <<>>
         /\ Len(split(ret.lines[j])) > 1 => LineWidth(ret.lines[j]) <= args.maxWidth
    /\ \A j \in 1..(Len(ret.lines) - 1) :
         LineWidth(ret.lines[j] \o <<" ">> \o split(ret.lines[j + 1])[1]) > args.maxWidth

\* two words kept on one line, the break before a third that does not fit
C23_Witness ==
  /\ WrapReturned
  /\ Len(ret.lines) = 2
  /\ Len(split(ret.lines[1])) = 2
  /\ \A k \in 1..2 : Truthy(split(ret.lines[1])[k])
  /\ LineWidth(ret.lines[1]) <= args.maxWidth
  /\ Truthy(ret.lines[2])

\* -------------------------------------- specification of repeated calls
\* One request is made twice over the same storage.  PDFDocument.load is
\* called without options, so the document it returns carries the time of the
\* load as its modification date (the library's default updateMetadata), and
\* save() writes it into the bytes.  The results of the service
\* specification leave the information dictionary out; here it is part of
\* the bytes.
Clock == 1..MaxClock

withModificationDate(result, now) ==
  IF result.status = "ok"
  THEN [result EXCEPT !.bytes = [template |-> result.bytes.template,
                                 ops |-> result.bytes.ops,
                                 modificationDate |-> now]]
  ELSE result

\* the calls made so far: when each was made and what it returned
Returned(now, result) == [at |-> now, result |-> withModificationDate(result, now)]

RepeatTables ==
  {Null, Table(<<Entry("name", fmPlain)>>),
   Table(<<Entry("name", fmBig), Entry("status", fmPlain)>>)}

RepeatCombinations ==
  {Null} \cup
  {[name |-> "c", templateName |-> FileName("t", ".pdf"), drawingPlacements |-> ps] :
     ps \in SeqsUpTo(Placements, 1)}

InitRepeat ==
  /\ templates = [n \in TemplateNames |-> [height |-> 842]]
  /\ mappings \in [{jsonName(t) : t \in TemplateNames} -> RepeatTables]
  /\ drawings \in {[d \in DrawingNames |-> IF d \in present THEN DrawingFiles[d] ELSE Null] :
                     present \in {DrawingNames, DrawingNames \ {FileName("d", ".pdf")}}}
  /\ drawingMappings \in [{jsonName(d) : d \in DrawingNames} -> {Null} \cup DrawingTables]
  /\ combinations \in [CombinationNames -> RepeatCombinations]
  /\ fn = "idle"
  /\ args = NoValue
  /\ ret = <<>>
  /\ NoneInFlight

FirstGeneratePDF ==
  \E templateName \in TemplateNames, data \in DataRecords, now \in Clock :
    /\ fn = "idle"
    /\ fn' = "generatePDF"
    /\ args' = [templateName |-> templateName, data |-> data]
    /\ ret' = <<Returned(now, generatePDF(templateName, data))>>
    /\ UNCHANGED <<storage, inflight>>

\* the same request again, not before the first one
RepeatGeneratePDF ==
  \E now \in Clock :
    /\ fn = "generatePDF"
    /\ Len(ret) = 1
    /\ now >= ret[1].at
    /\ ret' = Append(ret, Returned(now, generatePDF(args.templateName, args.data)))
    /\ UNCHANGED <<storage, fn, args, inflight>>

FirstGenerateWithCombination ==
  \E combinationName \in CombinationNames, templateData \in DataRecords,
     bucket \in DrawingBuckets, now \in Clock :
    LET drawingsData == [d \in DrawingNames |->
                           IF d.ext = ".pdf" THEN bucket ELSE NoBucket]
    IN  /\ fn = "idle"
        /\ fn' = "generateWithCombination"
        /\ args' = [combinationName |-> combinationName,
                    templateData |-> templateData, drawingsData |-> drawingsData]
        /\ ret' = <<Returned(now, generateWithCombination(combinationName,
                                    templateData, drawingsData))>>
        /\ UNCHANGED <<storage, inflight>>

RepeatGenerateWithCombination ==
  \E now \in Clock :
    /\ fn = "generateWithCombination"
    /\ Len(ret) = 1
    /\ now >= ret[1].at
    /\ ret' = Append(ret, Returned(now, generateWithCombination(args.combinationName,
                                          args.templateData, args.drawingsData)))
    /\ UNCHANGED <<storage, fn, args, inflight>>

NextRepeat ==
  \/ FirstGeneratePDF
  \/ RepeatGeneratePDF
  \/ FirstGenerateWithCombination
  \/ RepeatGenerateWithCombination

SpecRepeat == InitRepeat /\ [][NextRepeat]_vars

\* ------------------------------------------------ claims on repeated calls
CalledTwice == fn \in {"generatePDF", "generateWithCombination"} /\ Len(ret) = 2

\* C19: rendering is deterministic: two calls of generatePDF (or of
\* generateWithCombination) with the same stored inputs and the same data give
\* the same output, the same draw operations and the same bytes, whenever they
\* run and whatever was called before
C19_SameOutputTwice ==
  CalledTwice => ret[1].result = ret[2].result

\* -------------------------------- specification of concurrent requests
\* Several render requests run on one PDFService.  A request gives up control
\* at each await (a storage read, embedding a font, embedding a drawing,
\* save), so the steps of the requests interleave at those points.  Stored
\* data do not change here.
Requests == 1..MaxRequests

\* faulty variant: the document being drawn on is kept on the service
pdfDoc_shared(r) == 1

\* the document a request draws on is a local constant of the call (pdfDoc,
\* templatePdfDoc): one per request
pdfDoc(r) == r

ConcurrentData ==
  {[name |-> <<"a">>, status |-> <<"a">>], [name |-> <<"b", " ", "a">>, status |-> Undefined]}

RenderRequests ==
  {[fn |-> "generatePDF", templateName |-> t, data |-> d] :
     t \in TemplateNames, d \in ConcurrentData}
  \cup
  {[fn |-> "generateWithCombination", combinationName |-> c, templateData |-> d,
    drawingsData |-> [dn \in DrawingNames |->
                        IF dn.ext = ".pdf" THEN [name |-> <<"a">>, status |-> Undefined]
                        ELSE NoBucket]] :
     c \in CombinationNames, d \in ConcurrentData}

ConcurrentTables ==
  {Null, Table(<<Entry("name", fmPlain)>>),
   Table(<<Entry("name", fmEquals), Entry("status", fmPlain)>>)}

\* no placement, one placement, or the conditional PDF placement followed by
\* the image placement
ConcurrentCombinations ==
  {Null} \cup
  {[name |-> "c", templateName |-> FileName("t", ".pdf"), drawingPlacements |-> ps] :
     ps \in SeqsUpTo(Placements, 1)
            \cup {<<p, q>> : p \in {pl \in Placements : pl.rotation = 90},
                             q \in {pl \in Placements : pl.rotation = 45}}}

\* the local variables of a request that has just been called
Called == [pc |-> "called", height |-> 0, mapping |-> <<>>, i |-> 1,
           combination |-> Null, j |-> 1]

InitConcurrent ==
  /\ templates \in [TemplateNames -> {Null, [height |-> 842]}]
  /\ mappings \in [{jsonName(t) : t \in TemplateNames} -> ConcurrentTables]
  /\ drawings \in {[d \in DrawingNames |-> IF d \in present THEN DrawingFiles[d] ELSE Null] :
                     present \in {DrawingNames, DrawingNames \ {FileName("d", ".pdf")}}}
  /\ drawingMappings \in [{jsonName(d) : d \in DrawingNames} ->
                            {Null, Table(<<Entry("name", fmPlain)>>)}]
  /\ combinations \in [CombinationNames -> ConcurrentCombinations]
  /\ args \in [Requests -> RenderRequests]
  /\ fn = [r \in Requests |-> args[r].fn]
  /\ ret = [r \in Requests |-> NoValue]
  /\ requests = [r \in Requests |-> Called]
  /\ documents = [r \in Requests |-> <<>>]

\* the request ends: the promise is settled with bytes or with an error
Settle(r, result) ==
  /\ ret' = [ret EXCEPT ![r] = result]
  /\ requests' = [requests EXCEPT ![r].pc = "done"]

\* where a request goes once its template fields are drawn
AfterFields(r, combination) ==
  IF fn[r] = "generatePDF" THEN "save"
  ELSE IF Len(combination.drawingPlacements) = 0 THEN "save" ELSE "placements"

\* where a request goes once it holds its mapping
AfterMapping(r, mapping, combination) ==
  IF Len(mapping) = 0 THEN AfterFields(r, combination) ELSE "fields"

\* generatePDF: fs.pathExists(templatePath)
PathExistsTemplate(r) ==
  /\ fn[r] = "generatePDF" /\ requests[r].pc = "called"
  /\ IF templates[args[r].templateName] = Null
     THEN Settle(r, Thrown("Template not found", args[r].templateName))
     ELSE /\ requests' = [requests EXCEPT ![r].pc = "pathExistsMapping"]
          /\ UNCHANGED ret
  /\ UNCHANGED <<storage, fn, args, documents>>

\* generatePDF: fs.pathExists(mappingPath)
PathExistsMapping(r) ==
  /\ fn[r] = "generatePDF" /\ requests[r].pc = "pathExistsMapping"
  /\ IF mappings[jsonName(args[r].templateName)] = Null
     THEN Settle(r, Thrown("Mapping not found for template", args[r].templateName))
     ELSE /\ requests' = [requests EXCEPT ![r].pc = "load"]
          /\ UNCHANGED ret
  /\ UNCHANGED <<storage, fn, args, documents>>

\* generatePDF: readFile, readJSON and PDFDocument.load
LoadTemplate(r) ==
  /\ fn[r] = "generatePDF" /\ requests[r].pc = "load"
  /\ LET mapping == mappings[jsonName(args[r].templateName)].fields
     IN  requests' = [requests EXCEPT
                        ![r].height = templates[args[r].templateName].height,
                        ![r].mapping = mapping,
                        ![r].pc = AfterMapping(r, mapping, Null)]
  /\ documents' = [documents EXCEPT ![pdfDoc(r)] = <<>>]
  /\ UNCHANGED <<storage, fn, args, ret>>

\* generateWithCombination: getCombination
GetCombination(r) ==
  /\ fn[r] = "generateWithCombination" /\ requests[r].pc = "called"
  /\ IF combinations[args[r].combinationName] = Null
     THEN Settle(r, Thrown("Combination not found", args[r].combinationName))
     ELSE /\ requests' = [requests EXCEPT
                            ![r].combination = combinations[args[r].combinationName],
                            ![r].pc = "getTemplate"]
          /\ UNCHANGED ret
  /\ UNCHANGED <<storage, fn, args, documents>>

\* generateWithCombination: getTemplate and PDFDocument.load
GetTemplate(r) ==
  /\ fn[r] = "generateWithCombination" /\ requests[r].pc = "getTemplate"
  /\ LET templateName == requests[r].combination.templateName
     IN  IF templates[templateName] = Null
         THEN /\ Settle(r, Thrown("Template not found", templateName))
              /\ UNCHANGED documents
         ELSE /\ requests' = [requests EXCEPT ![r].height = templates[templateName].height,
                                              ![r].pc = "getMapping"]
              /\ documents' = [documents EXCEPT ![pdfDoc(r)] = <<>>]
              /\ UNCHANGED ret
  /\ UNCHANGED <<storage, fn, args>>

\* generateWithCombination: getMapping
GetMapping(r) ==
  /\ fn[r] = "generateWithCombination" /\ requests[r].pc = "getMapping"
  /\ LET templateMapping == mappings[jsonName(requests[r].combination.templateName)]
         mapping         == IF templateMapping = Null THEN <<>> ELSE templateMapping.fields
     IN  requests' = [requests EXCEPT
                        ![r].mapping = mapping,
                        ![r].pc = AfterMapping(r, mapping, requests[r].combination)]
  /\ UNCHANGED <<storage, fn, args, ret, documents>>

\* one turn of the loop over the mapping entries: embedFont, then the
\* draw-text calls of the field
DrawField(r) ==
  /\ requests[r].pc = "fields"
  /\ LET i     == requests[r].i
         entry == <<requests[r].mapping[i]>>
         drawn == IF fn[r] = "generatePDF"
                  THEN renderFieldsGeneratePDF("base", requests[r].height, entry,
                                               args[r].data)
                  ELSE renderFieldsCombination("base", requests[r].height, entry,
                                               args[r].templateData)
     IN  /\ documents' = [documents EXCEPT ![pdfDoc(r)] = documents[pdfDoc(r)] \o drawn]
         /\ requests' = [requests EXCEPT
                           ![r].i = i + 1,
                           ![r].pc = IF i = Len(requests[r].mapping)
                                     THEN AfterFields(r, requests[r].combination)
                                     ELSE "fields"]
  /\ UNCHANGED <<storage, fn, args, ret>>

\* where a request goes after the placement at position j
AfterPlacement(r, j) ==
  IF j = Len(requests[r].combination.drawingPlacements) THEN "save" ELSE "placements"

\* one turn of the placement loop up to getDrawing: the condition step, then
\* the read of the drawing
GetDrawing(r) ==
  /\ requests[r].pc = "placements"
  /\ LET j         == requests[r].j
         placement == requests[r].combination.drawingPlacements[j]
     IN  IF placementSkipped(placement, args[r].templateData)
         THEN /\ requests' = [requests EXCEPT ![r].j = j + 1,
                                              ![r].pc = AfterPlacement(r, j)]
              /\ UNCHANGED ret
         ELSE IF drawings[placement.drawingName] = Null
         THEN Settle(r, Thrown("Drawing not found", placement.drawingName))
         ELSE /\ requests' = [requests EXCEPT ![r].pc = "embed"]
              /\ UNCHANGED ret
  /\ UNCHANGED <<storage, fn, args, documents>>

\* the rest of the turn: getDrawingMapping, the drawing's fields, the
\* embedding and the draw call on the base page
EmbedDrawing(r) ==
  /\ requests[r].pc = "embed"
  /\ LET j     == requests[r].j
         drawn == embedPlacement(j, requests[r].combination.drawingPlacements[j],
                                 args[r].drawingsData, requests[r].height)
     IN  /\ documents' = [documents EXCEPT
                            ![pdfDoc(r)] = IF drawn = Null THEN documents[pdfDoc(r)]
                                           ELSE Append(documents[pdfDoc(r)], drawn)]
         /\ requests' = [requests EXCEPT ![r].j = j + 1, ![r].pc = AfterPlacement(r, j)]
  /\ UNCHANGED <<storage, fn, args, ret>>

\* save() and the return of the bytes
Save(r) ==
  /\ requests[r].pc = "save"
  /\ Settle(r, Bytes(IF fn[r] = "generatePDF" THEN args[r].templateName
                     ELSE requests[r].combination.templateName,
                     documents[pdfDoc(r)]))
  /\ UNCHANGED <<storage, fn, args, documents>>

NextConcurrent ==
  \E r \in Requests :
    \/ PathExistsTemplate(r)
    \/ PathExistsMapping(r)
    \/ LoadTemplate(r)
    \/ GetCombination(r)
    \/ GetTemplate(r)
    \/ GetMapping(r)
    \/ DrawField(r)
    \/ GetDrawing(r)
    \/ EmbedDrawing(r)
    \/ Save(r)

SpecConcurrent == InitConcurrent /\ [][NextConcurrent]_vars

\* ------------------------------------------- claims on concurrent requests
\* what the request returns when it runs alone on the same storage
Alone(request) ==
  IF request.fn = "generatePDF"
  THEN generatePDF(request.templateName, request.data)
  ELSE generateWithCombination(request.combinationName, request.templateData,
                               request.drawingsData)

\* a step changed what request r holds: its local variables, its document or
\* its result
Touched(r) ==
  \/ requests'[r] # requests[r]
  \/ documents'[r] # documents[r]
  \/ ret'[r] # ret[r]

\* C20: for every interleaving of the steps of concurrent render requests on
\* one PDFService, each request ends with the result, bytes or error, it
\* would produce alone on the same storage, and no step of one request
\* changes what another request holds
C20_ConcurrentAsIfAlone ==
  /\ [](\A r \in Requests :
          IF requests[r].pc = "done" THEN ret[r] = Alone(args[r]) ELSE ret[r] = NoValue)
  /\ [][\A p, q \in Requests : (Touched(p) /\ Touched(q)) => p = q]_vars

\* the first request has returned bytes while the second, a different
\* request, is about to save a document of its own with other content
C20_Witness ==
  /\ requests[1].pc = "done" /\ ret[1].status = "ok"
  /\ requests[2].pc = "save"
  /\ args[1] # args[2]
  /\ ret[1].bytes.ops # <<>> /\ documents[2] # <<>>
  /\ documents[2] # documents[1]

\* ---------------------------------------- specification of the contained fit
NaturalSides == 1..MaxSide \cup {200, 400}
RectSides == 1..MaxSide \cup {100}

FitArgs ==
  [drawing : [width : NaturalSides, height : NaturalSides],
   placement : {[Placement(FileName("d", ".pdf"), 10, 20, W, H, r) EXCEPT !.drawingName = "embedded"] :
                  W \in RectSides, H \in RectSides, r \in {0, 45}}]

\* the embedding step of the placement loop on an embedded page or image of
\* the given natural size, on a base page 842 high
InitFit ==
  /\ EmptyStorage
  /\ fn = "embed"
  /\ args \in FitArgs
  /\ ret = NoValue
  /\ NoneInFlight

\* embedPdf, the fit and firstPage.drawPage
CallEmbedPage ==
  /\ fn = "embed"
  /\ ret = NoValue
  /\ ret' = drawEmbedded("drawPage", 1, args.placement, args.drawing, 842, <<>>)
  /\ UNCHANGED <<storage, fn, args, inflight>>

\* embedPng or embedJpg, the fit and firstPage.drawImage
CallEmbedImage ==
  /\ fn = "embed"
  /\ ret = NoValue
  /\ ret' = drawEmbedded("drawImage", 1, args.placement, args.drawing, 842, <<>>)
  /\ UNCHANGED <<storage, fn, args, inflight>>

NextFit == CallEmbedPage \/ CallEmbedImage

SpecFit == InitFit /\ [][NextFit]_vars

\* ---------------------------------------------- claims on the contained fit
FitReturned == fn = "embed" /\ ret # NoValue

\* the offsets the call was positioned with
FitOffsetX == FracMinus(ret.x, Whole(args.placement.x))
FitOffsetY == FracMinus(ret.y, Whole(842 - args.placement.y - args.placement.height))

\* C14: for every natural size (w, h) and placement rectangle (W, H), all
\* positive, the fitted size is within the rectangle, keeps the aspect ratio,
\* fills one axis, and is centred with offset 0 on the filled axis; 400x200
\* into 100x100 gives 100x50 with offsetY 25 and offsetX 0; drawPage and
\* drawImage get the same geometry
C14_ContainedFit ==
  FitReturned =>
    LET w  == args.drawing.width
        h  == args.drawing.height
        W  == args.placement.width
        H  == args.placement.height
        fw == ret.width
        fh == ret.height
    IN  /\ FracLeq(fw, Whole(W)) /\ FracLeq(fh, Whole(H))
        /\ fw.n * h * fh.d = fh.n * w * fw.d
        /\ FracEq(fw, Whole(W)) \/ FracEq(fh, Whole(H))
        /\ FracEq(FitOffsetX, FracHalf(FracMinus(Whole(W), fw)))
        /\ FracEq(FitOffsetY, FracHalf(FracMinus(Whole(H), fh)))
        /\ FracEq(fw, Whole(W)) => FitOffsetX.n = 0
        /\ FracEq(fh, Whole(H)) => FitOffsetY.n = 0
        /\ (w = 400 /\ h = 200 /\ W = 100 /\ H = 100)
             => /\ FracEq(fw, Whole(100)) /\ FracEq(fh, Whole(50))
                /\ FracEq(FitOffsetY, Whole(25)) /\ FracEq(FitOffsetX, Whole(0))
        /\ ret.op \in {"drawPage", "drawImage"}
        /\ [ret EXCEPT !.op = "drawPage"]
             = drawEmbedded("drawPage", 1, args.placement, args.drawing, 842, <<>>)

\* an image of natural size 400x200 fitted into 100x100: 100 wide, 50 high
C14_Witness ==
  /\ FitReturned
  /\ ret.op = "drawImage"
  /\ args.drawing = [width |-> 400, height |-> 200]
  /\ args.placement.width = 100 /\ args.placement.height = 100
  /\ FracEq(ret.height, Whole(50))
  /\ ~FracEq(ret.height, Whole(100))

\* ------------------------------------- specification of font resolution
FontArgs == [fontFamily : FontHints, bold : BOOLEAN, italic : BOOLEAN]

InitFont ==
  /\ EmptyStorage
  /\ fn = "resolveFont"
  /\ args \in FontArgs
  /\ ret = NoValue
  /\ NoneInFlight

CallResolveFontGeneratePDF ==
  /\ fn = "resolveFont"
  /\ ret = NoValue
  /\ ret' = [path |-> "generatePDF",
             font |-> resolveFontGeneratePDF(args.fontFamily, args.bold, args.italic)]
  /\ UNCHANGED <<storage, fn, args, inflight>>

CallResolveFontCombination ==
  /\ fn = "resolveFont"
  /\ ret = NoValue
  /\ ret' = [path |-> "generateWithCombination",
             font |-> resolveFontCombination(args.fontFamily, args.bold, args.italic)]
  /\ UNCHANGED <<storage, fn, args, inflight>>

NextFont == CallResolveFontGeneratePDF \/ CallResolveFontCombination

SpecFont == InitFont /\ [][NextFont]_vars

\* ------------------------------------------------ claims on font resolution
FontResolved == fn = "resolveFont" /\ ret # NoValue

\* the font of a family with the given flags, as the documentation lists them
FontOfFamily(family, isBold, isItalic) ==
  CASE family = "Helvetica" ->
         (IF isBold /\ isItalic THEN "Helvetica-BoldOblique"
          ELSE IF isBold THEN "Helvetica-Bold"
          ELSE IF isItalic THEN "Helvetica-Oblique" ELSE "Helvetica")
    [] family = "Times-Roman" ->
         (IF isBold /\ isItalic THEN "Times-BoldItalic"
          ELSE IF isBold THEN "Times-Bold"
          ELSE IF isItalic THEN "Times-Italic" ELSE "Times-Roman")
    [] family = "Courier" ->
         (IF isBold /\ isItalic THEN "Courier-BoldOblique"
          ELSE IF isBold THEN "Courier-Bold"
          ELSE IF isItalic THEN "Courier-Oblique" ELSE "Courier")

\* the nine legacy hints with a variant suffix: base family, implied flags
SuffixedHints ==
  {[hint |-> <<"Helvetica", "-Bold">>, family |-> "Helvetica", b |-> TRUE, i |-> FALSE],
   [hint |-> <<"Helvetica", "-Oblique">>, family |-> "Helvetica", b |-> FALSE, i |-> TRUE],
   [hint |-> <<"Helvetica", "-Bold", "Oblique">>, family |-> "Helvetica", b |-> TRUE, i |-> TRUE],
   [hint |-> <<"Times", "-Bold">>, family |-> "Times-Roman", b |-> TRUE, i |-> FALSE],
   [hint |-> <<"Times", "-Italic">>, family |-> "Times-Roman", b |-> FALSE, i |-> TRUE],
   [hint |-> <<"Times", "-Bold", "Italic">>, family |-> "Times-Roman", b |-> TRUE, i |-> TRUE],
   [hint |-> <<"Courier", "-Bold">>, family |-> "Courier", b |-> TRUE, i |-> FALSE],
   [hint |-> <<"Courier", "-Oblique">>, family |-> "Courier", b |-> FALSE, i |-> TRUE],
   [hint |-> <<"Courier", "-Bold", "Oblique">>, family |-> "Courier", b |-> TRUE, i |-> TRUE]}

\* C6: in every rendering path a hint with a variant suffix resolves to the
\* font of its base family with bold = mapping.bold OR implied bold and
\* italic = mapping.italic OR implied italic
C6_SuffixFoldedIntoFlags ==
  FontResolved =>
    \A h \in SuffixedHints :
      args.fontFamily = h.hint =>
        ret.font = FontOfFamily(h.family, args.bold \/ h.b, args.italic \/ h.i)

NamesNoFamily(hint) ==
  ~(includes(hint, "Helvetica") \/ includes(hint, "Times") \/ includes(hint, "Courier"))

\* C7: font resolution always selects one of the 12 fonts, and a hint that
\* names none of the three families resolves to Helvetica regular whatever the
\* bold and italic flags are
C7_TotalAndFallbackRegular ==
  FontResolved =>
    /\ ret.font \in StandardFonts
    /\ (args.fontFamily # <<>> /\ NamesNoFamily(args.fontFamily)) => ret.font = "Helvetica"

\* ------------------------------------------ specification of storage paths
\* longest name, in tokens, a caller hands to a storage operation
MaxNameLen == 3

\* what a caller can put into a name: a letter, a dot, the two separators, the
\* URL-encoded dot and slash, a percent sign that starts no escape, a
\* character outside the allowed class, and the extension of a PDF file
NameTokens == {"a", ".", "/", "\\", "%2e", "%2f", "%", "*", ".pdf"}

RECURSIVE RawNames(_)
RawNames(n) ==
  IF n = 0 THEN {<<>>}
  ELSE LET shorter == RawNames(n - 1)
       IN  shorter \cup {Append(t, tok) : t \in shorter, tok \in NameTokens}

\* the characters of one token after decoding
decodeToken(tok) ==
  CASE tok = "%2e" -> <<".">>
    [] tok = "%2f" -> <<"/">>
    [] tok = ".pdf" -> <<".", "p", "d", "f">>
    [] tok = ".json" -> <<".", "j", "s", "o", "n">>
    [] OTHER -> <<tok>>

\* decodeURIComponent throws URIError on a percent sign that starts no escape
malformedURI(filename) == \E i \in 1..Len(filename) : filename[i] = "%"

RECURSIVE decodeURIComponent(_)
decodeURIComponent(filename) ==
  IF filename = <<>> THEN <<>>
  ELSE decodeToken(Head(filename)) \o decodeURIComponent(Tail(filename))

\* String.prototype.includes and endsWith on characters
includesText(text, sub) ==
  \E i \in 1..(Len(text) - Len(sub) + 1) : SubSeq(text, i, i + Len(sub) - 1) = sub

endsWith(text, suffix) ==
  /\ Len(text) >= Len(suffix)
  /\ SubSeq(text, Len(text) - Len(suffix) + 1, Len(text)) = suffix

\* index of the last slash of a path string, 0 when it has none
LastSlash(p) ==
  IF \E i \in 1..Len(p) : p[i] = "/"
  THEN CHOOSE i \in 1..Len(p) : p[i] = "/" /\ \A j \in (i + 1)..Len(p) : p[j] # "/"
  ELSE 0

RECURSIVE stripTrailingSlashes(_)
stripTrailingSlashes(p) ==
  IF p # <<>> /\ p[Len(p)] = "/"
  THEN stripTrailingSlashes(SubSeq(p, 1, Len(p) - 1))
  ELSE p

\* path.basename (POSIX): the last portion of the path, trailing separators
\* ignored; the backslash is an ordinary character
basename(p) ==
  LET q == stripTrailingSlashes(p)
  IN  SubSeq(q, LastSlash(q) + 1, Len(q))

\* /^[a-zA-Z0-9_\-\. ]+$/
AllowedChars == {"a", "p", "d", "f", "j", "s", "o", "n", "_", "-", ".", " "}

matchesAllowed(text) == text # <<>> /\ \A i \in 1..Len(text) : text[i] \in AllowedChars

Sanitized(name) == [error |-> "", name |-> name]
Invalid(message) == [error |-> message, name |-> <<>>]

sanitizeFilename(filename) ==
  IF malformedURI(filename) THEN Invalid("URI malformed")
  ELSE LET decoded == decodeURIComponent(filename)
           base == basename(decoded)
       IN  IF \/ base # decoded
              \/ includesText(base, <<".", ".">>)
              \/ includesText(base, <<"/">>)
              \/ includesText(base, <<"\\">>)
           THEN Invalid("Invalid filename: path traversal detected")
           ELSE IF ~matchesAllowed(base)
           THEN Invalid("Invalid filename: only alphanumeric, dash, underscore, dot, "
                        \o "and space allowed")
           ELSE Sanitized(base)

dotPdf == <<".", "p", "d", "f">>
dotJson == <<".", "j", "s", "o", "n">>

validatePDFFilename(filename) ==
  LET sanitized == sanitizeFilename(filename)
  IN  IF sanitized.error # "" THEN sanitized
      ELSE IF ~endsWith(sanitized.name, dotPdf)
      THEN Invalid("Invalid filename: must be a PDF file")
      ELSE sanitized

\* name.replace('.pdf', '.json'): the first occurrence
replacePdf(name) ==
  IF includesText(name, dotPdf)
  THEN LET i == CHOOSE k \in 1..Len(name) :
                  /\ k + 3 <= Len(name)
                  /\ SubSeq(name, k, k + 3) = dotPdf
                  /\ \A j \in 1..(k - 1) : SubSeq(name, j, j + 3) # dotPdf
       IN  SubSeq(name, 1, i - 1) \o dotJson \o SubSeq(name, i + 4, Len(name))
  ELSE name

drawingExtensions ==
  {dotPdf, <<".", "p", "n", "g">>, <<".", "j", "p", "g">>, <<".", "j", "p", "e", "g">>,
   <<".", "g", "i", "f">>, <<".", "b", "m", "p">>, <<".", "s", "v", "g">>}

\* name.replace(/\.(pdf|png|jpg|jpeg|gif|bmp|svg)$/i, '.json')
replaceDrawingExtension(name) ==
  IF \E e \in drawingExtensions : endsWith(name, e)
  THEN LET e == CHOOSE e \in drawingExtensions : endsWith(name, e)
       IN  SubSeq(name, 1, Len(name) - Len(e)) \o dotJson
  ELSE name

\* path.join(process.cwd(), directory)
Directory(directory) == <<[dir |-> "cwd"], [dir |-> directory]>>

templatesDir == Directory("templates")
mappingsDir == Directory("mappings")
drawingsDir == Directory("drawings")
drawingsMappingsDir == Directory("drawings_mappings")
combinationsDir == Directory("combinations")

\* the segments of a path string between its slashes
RECURSIVE segments(_)
segments(p) ==
  IF \E i \in 1..Len(p) : p[i] = "/"
  THEN LET i == CHOOSE k \in 1..Len(p) : p[k] = "/" /\ \A j \in 1..(k - 1) : p[j] # "/"
       IN  <<SubSeq(p, 1, i - 1)>> \o segments(SubSeq(p, i + 1, Len(p)))
  ELSE <<p>>

\* path.normalize: empty and '.' segments vanish, '..' takes the last one away
RECURSIVE normalize(_, _)
normalize(path, rest) ==
  IF rest = <<>> THEN path
  ELSE IF Head(rest) \in {<<>>, <<".">>} THEN normalize(path, Tail(rest))
  ELSE IF Head(rest) = <<".", ".">>
  THEN normalize(IF path = <<>> THEN path ELSE SubSeq(path, 1, Len(path) - 1), Tail(rest))
  ELSE normalize(Append(path, [file |-> Head(rest)]), Tail(rest))

\* path.join(directory, name)
pathJoin(directory, name) == normalize(directory, segments(name))

\* one call of fs on the path joined from a directory and a name
FsCall(call, directory, name) ==
  [call |-> call, directory |-> directory, path |-> pathJoin(directory, name)]

\* the outcome of a storage operation: the error it threw before any call of
\* fs, or the calls of fs it made
Rejected(message) == [status |-> "error", message |-> message, touched |-> <<>>]
Touching(calls) == [status |-> "ok", message |-> "", touched |-> calls]

\* fs.pathExists: the storage directories exist (the constructor makes them);
\* whether a file does is the caller's input
pathExists(directory, name, exists) ==
  IF pathJoin(directory, name) = directory THEN TRUE ELSE exists
\* the calls of fs each operation makes for a name, in order
getMappingCalls(templateName, exists) ==
  LET sanitized == validatePDFFilename(templateName)
      name == replacePdf(sanitized.name)
  IN  IF sanitized.error # "" THEN Rejected(sanitized.error)
      ELSE IF ~pathExists(mappingsDir, name, exists)
      THEN Touching(<<FsCall("pathExists", mappingsDir, name)>>)
      ELSE Touching(<<FsCall("pathExists", mappingsDir, name),
                      FsCall("readJSON", mappingsDir, name)>>)

saveMappingCalls(templateName) ==
  LET sanitized == validatePDFFilename(templateName)
  IN  IF sanitized.error # "" THEN Rejected(sanitized.error)
      ELSE Touching(<<FsCall("writeJSON", mappingsDir, replacePdf(sanitized.name))>>)

getTemplateCalls(templateName, exists) ==
  LET sanitized == validatePDFFilename(templateName)
  IN  IF sanitized.error # "" THEN Rejected(sanitized.error)
      ELSE IF ~pathExists(templatesDir, sanitized.name, exists)
      THEN Touching(<<FsCall("pathExists", templatesDir, sanitized.name)>>)
      ELSE Touching(<<FsCall("pathExists", templatesDir, sanitized.name),
                      FsCall("readFile", templatesDir, sanitized.name)>>)

saveTemplateCalls(templateName) ==
  LET sanitized == validatePDFFilename(templateName)
  IN  IF sanitized.error # "" THEN Rejected(sanitized.error)
      ELSE Touching(<<FsCall("writeFile", templatesDir, sanitized.name)>>)

\* pathExists and, when the path exists, remove
removeIfExists(directory, name, exists) ==
  IF pathExists(directory, name, exists)
  THEN <<FsCall("pathExists", directory, name), FsCall("remove", directory, name)>>
  ELSE <<FsCall("pathExists", directory, name)>>

deleteTemplateCalls(templateName, exists, hasMapping) ==
  LET sanitized == validatePDFFilename(templateName)
  IN  IF sanitized.error # "" THEN Rejected(sanitized.error)
      ELSE Touching(removeIfExists(templatesDir, sanitized.name, exists)
                    \o removeIfExists(mappingsDir, replacePdf(sanitized.name), hasMapping))

getDrawingCalls(drawingName, exists) ==
  LET sanitized == sanitizeFilename(drawingName)
  IN  IF sanitized.error # "" THEN Rejected(sanitized.error)
      ELSE IF ~pathExists(drawingsDir, sanitized.name, exists)
      THEN Touching(<<FsCall("pathExists", drawingsDir, sanitized.name)>>)
      ELSE Touching(<<FsCall("pathExists", drawingsDir, sanitized.name),
                      FsCall("readFile", drawingsDir, sanitized.name)>>)

saveDrawingCalls(drawingName) ==
  LET sanitized == sanitizeFilename(drawingName)
  IN  IF sanitized.error # "" THEN Rejected(sanitized.error)
      ELSE Touching(<<FsCall("writeFile", drawingsDir, sanitized.name)>>)

deleteDrawingCalls(drawingName, exists, hasMapping) ==
  LET sanitized == sanitizeFilename(drawingName)
  IN  IF sanitized.error # "" THEN Rejected(sanitized.error)
      ELSE Touching(removeIfExists(drawingsDir, sanitized.name, exists)
                    \o removeIfExists(drawingsMappingsDir,
                                      replaceDrawingExtension(sanitized.name), hasMapping))

getDrawingMappingCalls(drawingName, hasMapping) ==
  LET sanitized == sanitizeFilename(drawingName)
      name == replaceDrawingExtension(sanitized.name)
  IN  IF sanitized.error # "" THEN Rejected(sanitized.error)
      ELSE IF ~pathExists(drawingsMappingsDir, name, hasMapping)
      THEN Touching(<<FsCall("pathExists", drawingsMappingsDir, name)>>)
      ELSE Touching(<<FsCall("pathExists", drawingsMappingsDir, name),
                      FsCall("readJSON", drawingsMappingsDir, name)>>)

saveDrawingMappingCalls(drawingName) ==
  LET sanitized == sanitizeFilename(drawingName)
  IN  IF sanitized.error # "" THEN Rejected(sanitized.error)
      ELSE Touching(<<FsCall("writeJSON", drawingsMappingsDir,
                             replaceDrawingExtension(sanitized.name))>>)

\* path.extname(name).toLowerCase(): from the last dot of the name to its
\* end, empty when the name has no dot or only a leading one (the names of
\* this specification have no capitals)
pathExtname(name) ==
  LET dots == {i \in 2..Len(name) : name[i] = "."}
  IN  IF dots = {} THEN <<>>
      ELSE LET last == CHOOSE i \in dots : \A j \in dots : j <= i
           IN  SubSeq(name, last, Len(name))

renameDrawingCalls(oldName, newName, exists, taken, hasMapping) ==
  LET sanitizedOld == sanitizeFilename(oldName)
      sanitizedNew == sanitizeFilename(newName)
      oldMapping == replaceDrawingExtension(sanitizedOld.name)
      newMapping == replaceDrawingExtension(sanitizedNew.name)
      found == <<FsCall("pathExists", drawingsDir, sanitizedOld.name)>>
      free == found \o <<FsCall("pathExists", drawingsDir, sanitizedNew.name)>>
      moved == free \o <<FsCall("rename", drawingsDir, sanitizedOld.name),
                         FsCall("rename", drawingsDir, sanitizedNew.name),
                         FsCall("pathExists", drawingsMappingsDir, oldMapping)>>
  IN  IF sanitizedOld.error # "" THEN Rejected(sanitizedOld.error)
      ELSE IF sanitizedNew.error # "" THEN Rejected(sanitizedNew.error)
      ELSE IF pathExtname(sanitizedOld.name) # pathExtname(sanitizedNew.name)
      THEN Rejected("Cannot change file extension when renaming")
      ELSE IF ~pathExists(drawingsDir, sanitizedOld.name, exists) THEN Touching(found)
      ELSE IF pathExists(drawingsDir, sanitizedNew.name, taken) THEN Touching(free)
      ELSE IF ~pathExists(drawingsMappingsDir, oldMapping, hasMapping) THEN Touching(moved)
      ELSE Touching(moved \o <<FsCall("rename", drawingsMappingsDir, oldMapping),
                               FsCall("rename", drawingsMappingsDir, newMapping)>>)

\* combinationName + '.json'
combinationFile(combinationName) == combinationName \o <<".json">>

getCombinationCalls(combinationName, exists) ==
  LET sanitized == sanitizeFilename(combinationFile(combinationName))
  IN  IF sanitized.error # "" THEN Rejected(sanitized.error)
      ELSE IF ~pathExists(combinationsDir, sanitized.name, exists)
      THEN Touching(<<FsCall("pathExists", combinationsDir, sanitized.name)>>)
      ELSE Touching(<<FsCall("pathExists", combinationsDir, sanitized.name),
                      FsCall("readJSON", combinationsDir, sanitized.name)>>)

saveCombinationCalls(combinationName) ==
  LET sanitized == sanitizeFilename(combinationFile(combinationName))
  IN  IF sanitized.error # "" THEN Rejected(sanitized.error)
      ELSE Touching(<<FsCall("writeJSON", combinationsDir, sanitized.name)>>)

deleteCombinationCalls(combinationName, exists) ==
  LET sanitized == sanitizeFilename(combinationFile(combinationName))
  IN  IF sanitized.error # "" THEN Rejected(sanitized.error)
      ELSE Touching(removeIfExists(combinationsDir, sanitized.name, exists))

\* the reads of generatePDF before the document is loaded
generatePDFCalls(templateName, exists, hasMapping) ==
  LET sanitized == validatePDFFilename(templateName)
      template == <<FsCall("pathExists", templatesDir, sanitized.name)>>
      mapping == template \o <<FsCall("pathExists", mappingsDir, replacePdf(sanitized.name))>>
  IN  IF sanitized.error # "" THEN Rejected(sanitized.error)
      ELSE IF ~pathExists(templatesDir, sanitized.name, exists) THEN Touching(template)
      ELSE IF ~pathExists(mappingsDir, replacePdf(sanitized.name), hasMapping)
      THEN Touching(mapping)
      ELSE Touching(mapping \o <<FsCall("readFile", templatesDir, sanitized.name),
                                 FsCall("readJSON", mappingsDir, replacePdf(sanitized.name))>>)

\* the operations that take one name, and the one that takes two
OneNameOperations ==
  {"getMapping", "saveMapping", "getTemplate", "saveTemplate", "deleteTemplate",
   "getDrawing", "saveDrawing", "deleteDrawing", "getDrawingMapping",
   "saveDrawingMapping", "getCombination", "saveCombination", "deleteCombination",
   "generatePDF"}

\* the new names tried for a rename
NewNames == RawNames(1)

PathArgs ==
  [name : RawNames(MaxNameLen), newName : {<<>>}, exists : BOOLEAN, taken : {FALSE},
   hasMapping : BOOLEAN]

RenameArgs ==
  [name : RawNames(MaxNameLen), newName : NewNames, exists : BOOLEAN, taken : BOOLEAN,
   hasMapping : BOOLEAN]

InitPaths ==
  /\ EmptyStorage
  /\ \/ fn \in OneNameOperations /\ args \in PathArgs
     \/ fn = "renameDrawing" /\ args \in RenameArgs
  /\ ret = NoValue
  /\ NoneInFlight

PathsGetMapping ==
  /\ fn = "getMapping"
  /\ ret = NoValue
  /\ ret' = getMappingCalls(args.name, args.hasMapping)
  /\ UNCHANGED <<storage, fn, args, inflight>>

PathsSaveMapping ==
  /\ fn = "saveMapping"
  /\ ret = NoValue
  /\ ret' = saveMappingCalls(args.name)
  /\ UNCHANGED <<storage, fn, args, inflight>>

PathsGetTemplate ==
  /\ fn = "getTemplate"
  /\ ret = NoValue
  /\ ret' = getTemplateCalls(args.name, args.exists)
  /\ UNCHANGED <<storage, fn, args, inflight>>

PathsSaveTemplate ==
  /\ fn = "saveTemplate"
  /\ ret = NoValue
  /\ ret' = saveTemplateCalls(args.name)
  /\ UNCHANGED <<storage, fn, args, inflight>>

PathsDeleteTemplate ==
  /\ fn = "deleteTemplate"
  /\ ret = NoValue
  /\ ret' = deleteTemplateCalls(args.name, args.exists, args.hasMapping)
  /\ UNCHANGED <<storage, fn, args, inflight>>

PathsGetDrawing ==
  /\ fn = "getDrawing"
  /\ ret = NoValue
  /\ ret' = getDrawingCalls(args.name, args.exists)
  /\ UNCHANGED <<storage, fn, args, inflight>>

PathsSaveDrawing ==
  /\ fn = "saveDrawing"
  /\ ret = NoValue
  /\ ret' = saveDrawingCalls(args.name)
  /\ UNCHANGED <<storage, fn, args, inflight>>

PathsDeleteDrawing ==
  /\ fn = "deleteDrawing"
  /\ ret = NoValue
  /\ ret' = deleteDrawingCalls(args.name, args.exists, args.hasMapping)
  /\ UNCHANGED <<storage, fn, args, inflight>>

PathsGetDrawingMapping ==
  /\ fn = "getDrawingMapping"
  /\ ret = NoValue
  /\ ret' = getDrawingMappingCalls(args.name, args.hasMapping)
  /\ UNCHANGED <<storage, fn, args, inflight>>

PathsSaveDrawingMapping ==
  /\ fn = "saveDrawingMapping"
  /\ ret = NoValue
  /\ ret' = saveDrawingMappingCalls(args.name)
  /\ UNCHANGED <<storage, fn, args, inflight>>

PathsRenameDrawing ==
  /\ fn = "renameDrawing"
  /\ ret = NoValue
  /\ ret' = renameDrawingCalls(args.name, args.newName, args.exists, args.taken, args.hasMapping)
  /\ UNCHANGED <<storage, fn, args, inflight>>

PathsGetCombination ==
  /\ fn = "getCombination"
  /\ ret = NoValue
  /\ ret' = getCombinationCalls(args.name, args.exists)
  /\ UNCHANGED <<storage, fn, args, inflight>>

PathsSaveCombination ==
  /\ fn = "saveCombination"
  /\ ret = NoValue
  /\ ret' = saveCombinationCalls(args.name)
  /\ UNCHANGED <<storage, fn, args, inflight>>

PathsDeleteCombination ==
  /\ fn = "deleteCombination"
  /\ ret = NoValue
  /\ ret' = deleteCombinationCalls(args.name, args.exists)
  /\ UNCHANGED <<storage, fn, args, inflight>>

PathsGeneratePDF ==
  /\ fn = "generatePDF"
  /\ ret = NoValue
  /\ ret' = generatePDFCalls(args.name, args.exists, args.hasMapping)
  /\ UNCHANGED <<storage, fn, args, inflight>>


NextPaths ==
  \/ PathsGetMapping
  \/ PathsSaveMapping
  \/ PathsGetTemplate
  \/ PathsSaveTemplate
  \/ PathsDeleteTemplate
  \/ PathsGetDrawing
  \/ PathsSaveDrawing
  \/ PathsDeleteDrawing
  \/ PathsGetDrawingMapping
  \/ PathsSaveDrawingMapping
  \/ PathsRenameDrawing
  \/ PathsGetCombination
  \/ PathsSaveCombination
  \/ PathsDeleteCombination
  \/ PathsGeneratePDF

SpecPaths == InitPaths /\ [][NextPaths]_vars

\* ------------------------------------------------- claims on storage paths
PathsReturned == fn \in OneNameOperations \cup {"renameDrawing"} /\ ret # NoValue

\* a file directly inside the directory
DirectChild(directory, path) ==
  /\ Len(path) = Len(directory) + 1
  /\ SubSeq(path, 1, Len(directory)) = directory

\* C21: whatever name a caller gives, an operation either throws before its
\* first call of fs or hands fs only paths that are files directly inside the
\* directory the path was joined from, never the directory itself, its parent
\* or another directory.
C21_OnlyDirectChildren ==
  PathsReturned =>
    \/ ret.status = "error" /\ ret.touched = <<>>
    \/ /\ ret.status = "ok"
       /\ \A k \in 1..Len(ret.touched) :
            DirectChild(ret.touched[k].directory, ret.touched[k].path)
\* ------------------------------- specification of the storage of drawings
\* The operations on stored drawings, each run to its end before the next.
\* The names are ones sanitizeFilename lets through; the file system tells
\* names that differ in case apart.
StoredNames ==
  {FileName("d", ".pdf"), FileName("d", ".png"), FileName("e", ".pdf"),
   FileName("e", ".png"), FileName("e", ".PDF")}

\* the bytes uploaded under a name: the natural size tells the files apart
UploadedFile(name) ==
  IF extname(name) = ".pdf"
  THEN IF name.stem = "d" THEN [width |-> 400, height |-> 200]
       ELSE [width |-> 200, height |-> 400]
  ELSE IF name.stem = "d" THEN [width |-> 100, height |-> 300]
       ELSE [width |-> 300, height |-> 100]

\* a mapping table as saveDrawingMapping writes it; `savedFor` is not part of
\* the file, it records the drawing the table was saved for
SavedTable(fields, drawingName) == [fields |-> fields, savedFor |-> drawingName]

StoredFields == {<<Entry("name", fmPlain)>>}

\* the combinations on file: none, one placing d.pdf, one placing d.pdf and
\* then d.png
StoredCombinations ==
  {Null} \cup
  {[name |-> "c", templateName |-> FileName("t", ".pdf"), drawingPlacements |-> ps] :
     ps \in {<<Placement(FileName("d", ".pdf"), 10, 10, 100, 100, 0)>>,
             <<Placement(FileName("d", ".pdf"), 10, 10, 100, 100, 0),
               Placement(FileName("d", ".png"), 0, 0, 50, 200, 0)>>}}

\* the service starts on what earlier uploads left: some of d.pdf, d.png and
\* e.pdf, and no drawing mapping yet
InitStorage ==
  /\ templates = [n \in TemplateNames |-> [height |-> 842]]
  /\ mappings = [n \in {jsonName(t) : t \in TemplateNames} |-> Null]
  /\ drawings \in {[d \in StoredNames |-> IF d \in present THEN UploadedFile(d) ELSE Null] :
                     present \in SUBSET {FileName("d", ".pdf"), FileName("d", ".png"),
                                         FileName("e", ".pdf")}}
  /\ drawingMappings = [n \in {jsonName(d) : d \in StoredNames} |-> Null]
  /\ combinations \in [CombinationNames -> StoredCombinations]
  /\ fn = "idle"
  /\ args = NoValue
  /\ ret = NoValue
  /\ NoneInFlight

\* an operation that returns nothing has returned
Done == [status |-> "ok"]

\* getDrawingMapping: the table on file for the name, null when there is none
getDrawingMapping(drawingName) == drawingMappings[jsonName(drawingName)]

\* listDrawings: one entry for each file of the drawings directory
listDrawings ==
  {[name |-> d,
    type |-> IF extname(d) = ".pdf" THEN "pdf"
             ELSE IF extname(d) = ".svg" THEN "svg" ELSE "image",
    hasMapping |-> drawingMappings[jsonName(d)] # Null] :
     d \in {n \in DOMAIN drawings : drawings[n] # Null}}

CallSaveDrawingMapping ==
  \E drawingName \in StoredNames, fields \in StoredFields :
    /\ fn' = "saveDrawingMapping"
    /\ args' = [drawingName |-> drawingName, mapping |-> Table(fields)]
    /\ drawingMappings' = [drawingMappings EXCEPT
                             ![jsonName(drawingName)] = SavedTable(fields, drawingName)]
    /\ ret' = Done
    /\ UNCHANGED <<templates, mappings, drawings, combinations, inflight>>

CallGetDrawingMapping ==
  \E drawingName \in StoredNames :
    /\ fn' = "getDrawingMapping"
    /\ args' = [drawingName |-> drawingName]
    /\ ret' = [status |-> "ok", mapping |-> getDrawingMapping(drawingName)]
    /\ UNCHANGED <<storage, inflight>>

CallListDrawings ==
  /\ fn' = "listDrawings"
  /\ args' = NoValue
  /\ ret' = [status |-> "ok", drawings |-> listDrawings]
  /\ UNCHANGED <<storage, inflight>>

CallDeleteDrawing ==
  \E drawingName \in StoredNames :
    /\ fn' = "deleteDrawing"
    /\ args' = [drawingName |-> drawingName]
    /\ drawings' = [drawings EXCEPT ![drawingName] = Null]
    /\ drawingMappings' = [drawingMappings EXCEPT ![jsonName(drawingName)] = Null]
    /\ ret' = Done
    /\ UNCHANGED <<templates, mappings, combinations, inflight>>

\* fs.rename of the mapping file: the table moves to the new name, over a
\* table already there; the record of whom it was saved for follows the
\* drawing it was saved for
renamedMappings(oldName, newName) ==
  LET moved == drawingMappings[jsonName(oldName)]
  IN  IF moved = Null THEN drawingMappings
      ELSE [[drawingMappings EXCEPT ![jsonName(oldName)] = Null] EXCEPT
              ![jsonName(newName)] =
                 IF moved.savedFor = oldName
                 THEN SavedTable(moved.fields, newName) ELSE moved]

CallRenameDrawing ==
  \E oldName \in StoredNames, newName \in StoredNames :
    /\ fn' = "renameDrawing"
    /\ args' = [oldName |-> oldName, newName |-> newName]
    /\ IF extname(oldName) # extname(newName)
       THEN /\ ret' = Thrown("Cannot change file extension when renaming", newName)
            /\ UNCHANGED <<drawings, drawingMappings>>
       ELSE IF drawings[oldName] = Null
       THEN /\ ret' = Thrown("Drawing not found", oldName)
            /\ UNCHANGED <<drawings, drawingMappings>>
       ELSE IF drawings[newName] # Null
       THEN /\ ret' = Thrown("Drawing already exists with name", newName)
            /\ UNCHANGED <<drawings, drawingMappings>>
       ELSE /\ drawings' = [drawings EXCEPT ![newName] = drawings[oldName],
                                            ![oldName] = Null]
            /\ drawingMappings' = renamedMappings(oldName, newName)
            /\ ret' = Done
    /\ UNCHANGED <<templates, mappings, combinations, inflight>>

NextStorage ==
  \/ CallSaveDrawingMapping
  \/ CallGetDrawingMapping
  \/ CallListDrawings
  \/ CallDeleteDrawing
  \/ CallRenameDrawing

SpecStorage == InitStorage /\ [][NextStorage]_vars
\* ------------------------------------------ claims on the storage of drawings
\* a request for the stored combination: data for the base template, no
\* bucket for any drawing
StoredData == [name |-> <<"a">>, status |-> Undefined]
NoDrawingsData == [d \in StoredNames |-> NoBucket]

\* the combination can be generated on the storage as it is
Generates(combinationName) ==
  generateWithCombination(combinationName, StoredData, NoDrawingsData).status = "ok"

\* the step is a renameDrawing that succeeded
RenameSucceeds == fn' = "renameDrawing" /\ ret' = Done

\* C22: after a successful renameDrawing(oldName, newName) every stored
\* combination whose placements referenced oldName references newName
\* instead, and a combination that could be generated before the rename can
\* still be generated after it.
C22_RenameUpdatesCombinations ==
  [][RenameSucceeds =>
       \A c \in CombinationNames :
         combinations[c] # Null =>
           /\ combinations'[c] # Null
           /\ \A k \in 1..Len(combinations[c].drawingPlacements) :
                combinations[c].drawingPlacements[k].drawingName = args'.oldName =>
                  combinations'[c].drawingPlacements[k].drawingName = args'.newName
           /\ Generates(c) => Generates(c)']_vars
\* what getDrawingMapping returns for a name, without the record of whom the
\* table was saved for
TableOf(drawingName) ==
  IF getDrawingMapping(drawingName) = Null THEN Null
  ELSE Table(getDrawingMapping(drawingName).fields)

\* the drawing an operation is called on
CalledDrawing == IF fn' = "renameDrawing" THEN args'.oldName ELSE args'.drawingName

\* C28: every drawing has its own mapping table: saveDrawingMapping(d1),
\* deleteDrawing(d1) and renameDrawing(d1, ...) leave the result of
\* getDrawingMapping(d2) unchanged for every other name d2 (the new name of
\* the rename set aside), names with the same stem and another extension
\* included, and listDrawings reports hasMapping for a drawing only if the
\* table on file was saved for that drawing.
C28_MappingTablePerDrawing ==
  /\ [][fn' \in {"saveDrawingMapping", "deleteDrawing", "renameDrawing"} =>
          \A d2 \in StoredNames \ {CalledDrawing} :
            (fn' = "renameDrawing" => d2 # args'.newName) =>
              TableOf(d2)' = TableOf(d2)]_vars
  /\ [](\A entry \in listDrawings :
          entry.hasMapping => getDrawingMapping(entry.name).savedFor = entry.name)

\* the conditions under which renameDrawing has to fail
RenameMustFail(oldName, newName) ==
  \/ extname(oldName) # extname(newName)
  \/ drawings[oldName] = Null
  \/ drawings[newName] # Null

\* what a successful rename has to leave
RenameMoved(oldName, newName) ==
  /\ ret' = Done
  /\ drawings'[newName] = drawings[oldName]
  /\ TableOf(oldName) # Null => TableOf(newName)' = TableOf(oldName)
  /\ drawings'[oldName] = Null
  /\ TableOf(oldName)' = Null
  /\ \A d \in StoredNames \ {oldName, newName} :
       /\ drawings'[d] = drawings[d]
       /\ TableOf(d)' = TableOf(d)

\* C30: renameDrawing fails and leaves drawings and drawing mappings as they
\* were when the extensions differ (case ignored), when oldName is not
\* stored or when newName is; when it succeeds the bytes and the mapping
\* table, if there was one, are found under newName, nothing is left under
\* oldName, and every other drawing and mapping is unchanged.
C30_RenameAllOrNothing ==
  [][\A oldName, newName \in StoredNames :
       (fn' = "renameDrawing" /\ args' = [oldName |-> oldName, newName |-> newName]) =>
         IF RenameMustFail(oldName, newName)
         THEN ret'.status = "error" /\ UNCHANGED <<drawings, drawingMappings>>
         ELSE RenameMoved(oldName, newName)]_vars
\* --------------------------- specification of two requests on one storage
\* Two calls of generateWithCombination, one after the other, on the same
\* stored data; the requests differ in their template data and in their
\* drawing data as they please.
IsolationData ==
  {[name |-> <<"a">>, status |-> <<"a">>],
   [name |-> <<"b", " ", "a">>, status |-> Undefined],
   [name |-> <<"b">>, status |-> <<"b">>]}

\* drawingsData of a request: a bucket or none for the PDF drawing, a bucket
\* or none for the image, none for the SVG file
IsolationDrawingsData ==
  {[d \in DrawingNames |->
      IF d.ext = ".pdf" THEN pdfBucket
      ELSE IF d.ext = ".png" THEN pngBucket
      ELSE NoBucket] :
     pdfBucket \in DrawingBuckets,
     pngBucket \in {NoBucket, [name |-> <<"b">>, status |-> <<"b">>]}}

InitIsolation ==
  /\ templates = [n \in TemplateNames |-> [height |-> 842]]
  /\ mappings \in [{jsonName(t) : t \in TemplateNames} ->
                     {Null, Table(<<Entry("name", fmPlain)>>)}]
  /\ drawings = [d \in DrawingNames |-> DrawingFiles[d]]
  /\ drawingMappings \in [{jsonName(d) : d \in DrawingNames} -> {Null} \cup DrawingTables]
  /\ combinations \in [CombinationNames -> Combinations]
  /\ fn = "idle"
  /\ args = <<>>
  /\ ret = <<>>
  /\ NoneInFlight

FirstRequest ==
  \E combinationName \in CombinationNames, templateData \in IsolationData,
     drawingsData \in IsolationDrawingsData :
    /\ fn = "idle"
    /\ fn' = "generateWithCombination"
    /\ args' = <<[combinationName |-> combinationName, templateData |-> templateData,
                  drawingsData |-> drawingsData]>>
    /\ ret' = <<generateWithCombination(combinationName, templateData, drawingsData)>>
    /\ UNCHANGED <<storage, inflight>>

\* faulty variant: a drawing without a bucket is filled from the template data
SecondRequest_fallsBackToTemplateData ==
  \E combinationName \in CombinationNames, templateData \in IsolationData,
     drawingsData \in IsolationDrawingsData :
    /\ fn = "generateWithCombination"
    /\ Len(ret) = 1
    /\ args' = Append(args, [combinationName |-> combinationName,
                             templateData |-> templateData,
                             drawingsData |-> drawingsData])
    /\ ret' = Append(ret, generateWithCombination(combinationName, templateData,
                            [d \in DrawingNames |->
                               IF drawingsData[d] = NoBucket THEN templateData
                               ELSE drawingsData[d]]))
    /\ UNCHANGED <<storage, fn, inflight>>

SecondRequest ==
  \E combinationName \in CombinationNames, templateData \in IsolationData,
     drawingsData \in IsolationDrawingsData :
    /\ fn = "generateWithCombination"
    /\ Len(ret) = 1
    /\ args' = Append(args, [combinationName |-> combinationName,
                             templateData |-> templateData,
                             drawingsData |-> drawingsData])
    /\ ret' = Append(ret, generateWithCombination(combinationName, templateData,
                                                  drawingsData))
    /\ UNCHANGED <<storage, fn, inflight>>

NextIsolation == FirstRequest \/ SecondRequest

SpecIsolation == InitIsolation /\ [][NextIsolation]_vars

\* ------------------------------------- claims on two requests on one storage
\* the embedded-content calls of a result for one drawing
EmbedsOf(result, drawingName) ==
  IF result.status = "ok"
  THEN {k \in 1..Len(result.bytes.ops) :
          /\ IsEmbedCall(result.bytes.ops[k])
          /\ result.bytes.ops[k].drawing = drawingName}
  ELSE {}

\* what was drawn on the drawing before each of its embeddings
ContentsOf(result, drawingName) ==
  {result.bytes.ops[k].content : k \in EmbedsOf(result, drawingName)}

\* C26: the text drawn on a PDF drawing depends only on the drawing's mapping
\* table and on drawingsData[drawingName]: two requests on the same storage
\* with the same bucket for a drawing put the same text on it, whatever their
\* template data and their other buckets; a drawing without a bucket gets no
\* text; two placements of one drawing in a combination get the same text,
\* the second not on top of the first; a raster drawing gets no text.
C26_DrawingTextFromOwnBucket ==
  fn = "generateWithCombination" =>
    /\ \A r \in 1..Len(ret) :
         \A d \in DrawingNames :
           /\ Cardinality(ContentsOf(ret[r], d)) <= 1
           /\ \A k \in EmbedsOf(ret[r], d) :
                (ret[r].bytes.ops[k].op = "drawImage" \/ args[r].drawingsData[d] = NoBucket)
                  => ret[r].bytes.ops[k].content = <<>>
    /\ Len(ret) = 2 =>
         \A d \in DrawingNames :
           args[1].drawingsData[d] = args[2].drawingsData[d] =>
             \A c1 \in ContentsOf(ret[1], d), c2 \in ContentsOf(ret[2], d) : c1 = c2

\* two requests with different template data and different image buckets
\* and the same bucket for the PDF drawing: the first places the PDF drawing
\* twice, both carry its text
C26_Witness ==
  /\ fn = "generateWithCombination" /\ Len(ret) = 2
  /\ args[1].templateData # args[2].templateData
  /\ \E d \in DrawingNames :
       /\ d.ext = ".pdf"
       /\ args[1].drawingsData[d] = args[2].drawingsData[d]
       /\ args[1].drawingsData[d] # NoBucket
       /\ Cardinality(EmbedsOf(ret[1], d)) = 2
       /\ EmbedsOf(ret[2], d) # {}
       /\ \A c \in ContentsOf(ret[1], d) \cup ContentsOf(ret[2], d) : c # <<>>
  /\ \E d \in DrawingNames :
       d.ext = ".png" /\ args[1].drawingsData[d] # args[2].drawingsData[d]
\* --------- specification of a render request beside a storage operation
\* One render request runs stepwise, as in the specification of concurrent
\* requests, while one storage-changing operation runs on the same service.
\* Both give up control at their awaits.  A step holds one read or one change
\* of the storage together with the computation that follows it up to the
\* next await; an existence test and the read or removal it guards are one
\* step.  Each write, rename and removal of a file is atomic.
InterleavedData == [name |-> <<"a">>, status |-> Undefined]

InterleavedRequests ==
  {[fn |-> "generatePDF", templateName |-> t, data |-> InterleavedData] :
     t \in TemplateNames}
  \cup
  {[fn |-> "generateWithCombination", combinationName |-> c,
    templateData |-> InterleavedData,
    drawingsData |-> [d \in StoredNames |->
                        IF d = FileName("d", ".pdf") THEN InterleavedData ELSE NoBucket]] :
     c \in CombinationNames}

StorageOperations ==
  {[fn |-> "renameDrawing", oldName |-> FileName("d", ".pdf"),
    newName |-> FileName("e", ".pdf")],
   [fn |-> "renameDrawing", oldName |-> FileName("d", ".png"),
    newName |-> FileName("e", ".png")],
   [fn |-> "deleteDrawing", drawingName |-> FileName("d", ".pdf")],
   [fn |-> "deleteDrawing", drawingName |-> FileName("d", ".png")],
   [fn |-> "deleteTemplate", templateName |-> FileName("t", ".pdf")],
   [fn |-> "saveMapping", templateName |-> FileName("t", ".pdf"),
    mapping |-> Table(<<Entry("name", fmEquals)>>)],
   [fn |-> "saveDrawingMapping", drawingName |-> FileName("d", ".pdf"),
    mapping |-> Table(<<Entry("name", fmEquals)>>)]}

\* what the request returns when it runs alone on the storage as it is
RunAlone(request) ==
  IF request.fn = "generatePDF"
  THEN generatePDF(request.templateName, request.data)
  ELSE generateWithCombination(request.combinationName, request.templateData,
                               request.drawingsData)

\* the locals of the request and the position of the operation; `before` is
\* no argument of either call, it records what the request returns on the
\* storage as it is when both are called
InitInterleaved ==
  /\ templates = [n \in TemplateNames |-> [height |-> 842]]
  /\ mappings \in [{jsonName(t) : t \in TemplateNames} ->
                     {Null, Table(<<Entry("name", fmPlain)>>)}]
  /\ drawings \in {[d \in StoredNames |-> IF d \in present THEN UploadedFile(d) ELSE Null] :
                     present \in {{FileName("d", ".pdf")},
                                  {FileName("d", ".pdf"), FileName("d", ".png")}}}
  /\ drawingMappings \in {[n \in {jsonName(d) : d \in StoredNames} |->
                             IF n = FileName("d", ".json") THEN table ELSE Null] :
                            table \in {Null, Table(<<Entry("name", fmPlain)>>)}}
  /\ combinations \in [CombinationNames -> StoredCombinations \ {Null}]
  /\ \E request \in InterleavedRequests, operation \in StorageOperations :
       /\ args = [request |-> request, operation |-> operation,
                  before |-> RunAlone(request)]
       /\ fn = [request |-> request.fn, operation |-> operation.fn]
  /\ ret = [request |-> NoValue, operation |-> NoValue]
  /\ requests = [request |-> [pc |-> "called", combination |-> Null, height |-> 0,
                              j |-> 1, drawing |-> Null],
                 operation |-> [pc |-> "called"]]
  /\ documents = <<>>

\* the request ends with bytes or with an error
SettleRequest(result) ==
  /\ ret' = [ret EXCEPT !.request = result]
  /\ requests' = [requests EXCEPT !.request.pc = "done"]

\* the request moves on with its locals changed
Proceed(locals) ==
  /\ requests' = [requests EXCEPT !.request = locals]
  /\ UNCHANGED ret

\* the operation ends
SettleOperation(result) ==
  /\ ret' = [ret EXCEPT !.operation = result]
  /\ requests' = [requests EXCEPT !.operation.pc = "done"]

AtRequest(name, pc) == fn.request = name /\ requests.request.pc = pc
AtOperation(name, pc) == fn.operation = name /\ requests.operation.pc = pc

\* generatePDF: fs.pathExists(templatePath)
AwaitPathExistsTemplate ==
  /\ AtRequest("generatePDF", "called")
  /\ IF templates[args.request.templateName] = Null
     THEN SettleRequest(Thrown("Template not found", args.request.templateName))
     ELSE Proceed([requests.request EXCEPT !.pc = "pathExistsMapping"])
  /\ UNCHANGED <<storage, fn, args, documents>>

\* generatePDF: fs.pathExists(mappingPath)
AwaitPathExistsMapping ==
  /\ AtRequest("generatePDF", "pathExistsMapping")
  /\ IF mappings[jsonName(args.request.templateName)] = Null
     THEN SettleRequest(Thrown("Mapping not found for template",
                               args.request.templateName))
     ELSE Proceed([requests.request EXCEPT !.pc = "readFile"])
  /\ UNCHANGED <<storage, fn, args, documents>>

\* generatePDF: fs.readFile(templatePath), which fails on a file removed since
AwaitReadFile ==
  /\ AtRequest("generatePDF", "readFile")
  /\ IF templates[args.request.templateName] = Null
     THEN SettleRequest(Thrown("ENOENT", args.request.templateName))
     ELSE Proceed([requests.request EXCEPT
                     !.height = templates[args.request.templateName].height,
                     !.pc = "readJSON"])
  /\ UNCHANGED <<storage, fn, args, documents>>

\* generatePDF: fs.readJSON(mappingPath), the load of the document and the
\* loop over the mapping
AwaitReadJSON ==
  /\ AtRequest("generatePDF", "readJSON")
  /\ LET mapping == mappings[jsonName(args.request.templateName)]
     IN  IF mapping = Null
         THEN /\ SettleRequest(Thrown("ENOENT", jsonName(args.request.templateName)))
              /\ UNCHANGED documents
         ELSE /\ Proceed([requests.request EXCEPT !.pc = "save"])
              /\ documents' = renderFieldsGeneratePDF("base", requests.request.height,
                                                      mapping.fields, args.request.data)
  /\ UNCHANGED <<storage, fn, args>>

\* generateWithCombination: getCombination
AwaitGetCombination ==
  /\ AtRequest("generateWithCombination", "called")
  /\ LET combination == combinations[args.request.combinationName]
     IN  IF combination = Null
         THEN SettleRequest(Thrown("Combination not found", args.request.combinationName))
         ELSE Proceed([requests.request EXCEPT !.combination = combination,
                                               !.pc = "getTemplate"])
  /\ UNCHANGED <<storage, fn, args, documents>>

\* generateWithCombination: getTemplate and the load of the document
AwaitGetTemplate ==
  /\ AtRequest("generateWithCombination", "getTemplate")
  /\ LET templateName == requests.request.combination.templateName
     IN  IF templates[templateName] = Null
         THEN SettleRequest(Thrown("Template not found", templateName))
         ELSE Proceed([requests.request EXCEPT !.height = templates[templateName].height,
                                               !.pc = "getMapping"])
  /\ UNCHANGED <<storage, fn, args, documents>>

\* where the placement loop goes at position j
AtPlacement(j) ==
  IF j > Len(requests.request.combination.drawingPlacements) THEN "save"
  ELSE "getDrawing"

\* generateWithCombination: getMapping and the loop over the template mapping
AwaitGetMapping ==
  /\ AtRequest("generateWithCombination", "getMapping")
  /\ LET templateMapping == mappings[jsonName(requests.request.combination.templateName)]
     IN  documents' = IF templateMapping = Null THEN <<>>
                      ELSE renderFieldsCombination("base", requests.request.height,
                                                   templateMapping.fields,
                                                   args.request.templateData)
  /\ Proceed([requests.request EXCEPT !.pc = AtPlacement(1)])
  /\ UNCHANGED <<storage, fn, args>>

\* one turn of the placement loop up to getDrawing: the condition step and
\* the read of the drawing, which the request holds from then on
AwaitGetDrawing ==
  /\ AtRequest("generateWithCombination", "getDrawing")
  /\ LET j         == requests.request.j
         placement == requests.request.combination.drawingPlacements[j]
     IN  IF placementSkipped(placement, args.request.templateData)
         THEN Proceed([requests.request EXCEPT !.j = j + 1, !.pc = AtPlacement(j + 1)])
         ELSE IF drawings[placement.drawingName] = Null
         THEN SettleRequest(Thrown("Drawing not found", placement.drawingName))
         ELSE Proceed([requests.request EXCEPT !.drawing = drawings[placement.drawingName],
                                               !.pc = "getDrawingMapping"])
  /\ UNCHANGED <<storage, fn, args, documents>>

\* the body of the placement loop on the drawing and the mapping table the
\* request holds
embedLoaded(index, placement, drawing, drawingMapping, drawingsData, height) ==
  LET drawingName == placement.drawingName
      bucket      == drawingsData[drawingName]
      drawingData == IF bucket = NoBucket
                     THEN [f \in FieldNames |-> Undefined] ELSE bucket
      drawingExt  == extname(drawingName)
  IN  IF drawingExt = ".pdf"
      THEN drawEmbedded("drawPage", index, placement, drawing, height,
             IF drawingMapping # Null
             THEN renderFieldsCombination(drawingName, drawing.height,
                                          drawingMapping.fields, drawingData)
             ELSE <<>>)
      ELSE IF drawingExt \in {".png", ".jpg", ".jpeg"}
      THEN drawEmbedded("drawImage", index, placement, drawing, height, <<>>)
      ELSE Null

\* the rest of the turn: getDrawingMapping, then the drawing's fields, the
\* embedding and the draw call on the base page
AwaitGetDrawingMapping ==
  /\ AtRequest("generateWithCombination", "getDrawingMapping")
  /\ LET j         == requests.request.j
         placement == requests.request.combination.drawingPlacements[j]
         drawn     == embedLoaded(j, placement, requests.request.drawing,
                                  drawingMappings[jsonName(placement.drawingName)],
                                  args.request.drawingsData, requests.request.height)
     IN  /\ documents' = IF drawn = Null THEN documents ELSE Append(documents, drawn)
         /\ Proceed([requests.request EXCEPT !.j = j + 1, !.drawing = Null,
                                             !.pc = AtPlacement(j + 1)])
  /\ UNCHANGED <<storage, fn, args>>

\* save() and the return of the bytes
ReturnBytes ==
  /\ requests.request.pc = "save"
  /\ SettleRequest(Bytes(IF fn.request = "generatePDF" THEN args.request.templateName
                         ELSE requests.request.combination.templateName,
                         documents))
  /\ UNCHANGED <<storage, fn, args, documents>>

\* renameDrawing up to the rename of the drawing file
RenameDrawingFile ==
  /\ AtOperation("renameDrawing", "called")
  /\ LET oldName == args.operation.oldName
         newName == args.operation.newName
     IN  IF extname(oldName) # extname(newName)
         THEN /\ SettleOperation(Thrown("Cannot change file extension when renaming",
                                        newName))
              /\ UNCHANGED drawings
         ELSE IF drawings[oldName] = Null
         THEN /\ SettleOperation(Thrown("Drawing not found", oldName))
              /\ UNCHANGED drawings
         ELSE IF drawings[newName] # Null
         THEN /\ SettleOperation(Thrown("Drawing already exists with name", newName))
              /\ UNCHANGED drawings
         ELSE /\ drawings' = [drawings EXCEPT ![newName] = drawings[oldName],
                                              ![oldName] = Null]
              /\ requests' = [requests EXCEPT !.operation.pc = "renameMapping"]
              /\ UNCHANGED ret
  /\ UNCHANGED <<templates, mappings, drawingMappings, combinations, fn, args, documents>>

\* renameDrawing: the rename of the mapping file, when there is one
RenameMappingFile ==
  /\ AtOperation("renameDrawing", "renameMapping")
  /\ LET oldMapping == jsonName(args.operation.oldName)
         newMapping == jsonName(args.operation.newName)
     IN  drawingMappings' =
           IF drawingMappings[oldMapping] = Null THEN drawingMappings
           ELSE [[drawingMappings EXCEPT ![oldMapping] = Null] EXCEPT
                   ![newMapping] = drawingMappings[oldMapping]]
  /\ SettleOperation(Done)
  /\ UNCHANGED <<templates, mappings, drawings, combinations, fn, args, documents>>

\* deleteDrawing: the removal of the drawing file
RemoveDrawingFile ==
  /\ AtOperation("deleteDrawing", "called")
  /\ drawings' = [drawings EXCEPT ![args.operation.drawingName] = Null]
  /\ requests' = [requests EXCEPT !.operation.pc = "removeMapping"]
  /\ UNCHANGED <<templates, mappings, drawingMappings, combinations, fn, args, ret,
                 documents>>

\* deleteDrawing: the removal of the mapping file
RemoveDrawingMappingFile ==
  /\ AtOperation("deleteDrawing", "removeMapping")
  /\ drawingMappings' = [drawingMappings EXCEPT
                           ![jsonName(args.operation.drawingName)] = Null]
  /\ SettleOperation(Done)
  /\ UNCHANGED <<templates, mappings, drawings, combinations, fn, args, documents>>

\* deleteTemplate: the removal of the template file
RemoveTemplateFile ==
  /\ AtOperation("deleteTemplate", "called")
  /\ templates' = [templates EXCEPT ![args.operation.templateName] = Null]
  /\ requests' = [requests EXCEPT !.operation.pc = "removeMapping"]
  /\ UNCHANGED <<mappings, drawings, drawingMappings, combinations, fn, args, ret,
                 documents>>

\* deleteTemplate: the removal of the mapping file
RemoveMappingFile ==
  /\ AtOperation("deleteTemplate", "removeMapping")
  /\ mappings' = [mappings EXCEPT ![jsonName(args.operation.templateName)] = Null]
  /\ SettleOperation(Done)
  /\ UNCHANGED <<templates, drawings, drawingMappings, combinations, fn, args, documents>>

\* saveMapping: fs.writeJSON
WriteMapping ==
  /\ AtOperation("saveMapping", "called")
  /\ mappings' = [mappings EXCEPT
                    ![jsonName(args.operation.templateName)] = args.operation.mapping]
  /\ SettleOperation(Done)
  /\ UNCHANGED <<templates, drawings, drawingMappings, combinations, fn, args, documents>>

\* saveDrawingMapping: fs.writeJSON
WriteDrawingMapping ==
  /\ AtOperation("saveDrawingMapping", "called")
  /\ drawingMappings' = [drawingMappings EXCEPT
                           ![jsonName(args.operation.drawingName)] =
                              args.operation.mapping]
  /\ SettleOperation(Done)
  /\ UNCHANGED <<templates, mappings, drawings, combinations, fn, args, documents>>

NextInterleaved ==
  \/ AwaitPathExistsTemplate
  \/ AwaitPathExistsMapping
  \/ AwaitReadFile
  \/ AwaitReadJSON
  \/ AwaitGetCombination
  \/ AwaitGetTemplate
  \/ AwaitGetMapping
  \/ AwaitGetDrawing
  \/ AwaitGetDrawingMapping
  \/ ReturnBytes
  \/ RenameDrawingFile
  \/ RenameMappingFile
  \/ RemoveDrawingFile
  \/ RemoveDrawingMappingFile
  \/ RemoveTemplateFile
  \/ RemoveMappingFile
  \/ WriteMapping
  \/ WriteDrawingMapping

SpecInterleaved == InitInterleaved /\ [][NextInterleaved]_vars

\* ------------------- claims on a render request beside a storage operation
BothDone == requests.request.pc = "done" /\ requests.operation.pc = "done"

\* C29: a render request that runs interleaved with one storage-changing
\* operation ends with an error, or with the output it produces on the
\* storage as it was before the operation, or with the output it produces on
\* the storage as it is after it; never with an output built from a mix of
\* the two.
C29_BeforeOrAfterOrError ==
  BothDone =>
    \/ ret.request.status = "error"
    \/ ret.request = args.before
    \/ ret.request = RunAlone(args.request)
====
